---- MODULE Spec2Model ----
(***************************************************************************)
(* Model of pyaff4/data_store.py.                                          *)
(*                                                                         *)
(* AFF4ObjectCache, the reference counted LRU object cache, and the       *)
(* MemoryDataStore.Flush entry point that drives it (Spec); the fact       *)
(* stores of MemoryDataStore with Add, Set, Get, _DumpToTurtle and         *)
(* LoadFromTurtle (SpecStore); AFF4FactoryOpen over the cache and the      *)
(* stores (SpecFactory); the append protocol of DumpToTurtle on the        *)
(* metadata members of a zip container (SpecTurtle).                       *)
(*                                                                         *)
(* A cache entry is identified by its key (the serialized URN): the cache  *)
(* holds at most one entry per key.  Node 0 is the sentinel lru_list.      *)
(***************************************************************************)
EXTENDS Integers, Sequences, FiniteSets, TLC

\* ------------------------------------------------------------------------
\* Bounds
\* ------------------------------------------------------------------------
NumKeys == 3
MaxUse == 2
MaxMaxItems == 2
NumCallbacks == 1

Keys == 1..NumKeys
Nodes == 0..NumKeys
Callbacks == 1..NumCallbacks

\* size=None of _Trim
NoSize == 0 - 1
TrimSizes == {NoSize} \cup (0..MaxMaxItems)

VARIABLES
    max_items,        \* AFF4ObjectCache.max_items
    in_use,           \* keys of AFF4ObjectCache.in_use
    lru_map,          \* keys of AFF4ObjectCache.lru_map
    use_count,        \* AFF4ObjectCacheEntry.use_count, by key
    next,             \* AFF4ObjectCacheEntry.next, by node
    prev,             \* AFF4ObjectCacheEntry.prev, by node
    dirty,            \* IsDirty() of the object wrapped by the entry
    flush_callbacks,  \* keys of MemoryDataStore.flush_callbacks
    idle_order,       \* history: the idle keys in the order they became idle
    store,            \* MemoryDataStore.store, the persistent facts
    transient_store,  \* MemoryDataStore.transient_store, the transient facts
    members,          \* the metadata members of the zip container
    outstanding,      \* history: AFF4FactoryOpen minus Return, by key
    sweep,            \* the running AFF4ObjectCache.Flush: position and locals
    hdt,              \* HDTAssistedDataStore.hdt, the open index document
    cached_turtle     \* the index file ~/.aff4/<volume>.hdt

cacheVars == <<max_items, in_use, lru_map, use_count, next, prev, dirty>>
resolverVars == <<store, transient_store, members, outstanding>>
hdtVars == <<hdt, cached_turtle>>
vars == <<max_items, in_use, lru_map, use_count, next, prev, dirty,
          flush_callbacks, idle_order, store, transient_store, members,
          outstanding, sweep, hdt, cached_turtle>>

\* ------------------------------------------------------------------------
\* Helpers
\* ------------------------------------------------------------------------
SeqToSet(s) == {s[i] : i \in 1..Len(s)}

Perms(S) == {p \in [1..Cardinality(S) -> S] : \A i, j \in 1..Cardinality(S) : p[i] = p[j] => i = j}

\* The container an object is stored in: flushing a dirty object writes
\* into its container and so makes the container dirty.  0: none.
StoredIn(k) == k - 1

\* The cache as one value, threaded through the methods of a call, with the
\* trace of the call: calls, the object hooks and callbacks invoked, in
\* order; evicted, the entries popped by _Trim; ok, FALSE once the call
\* has raised.
Cache ==
    [in_use |-> in_use, lru_map |-> lru_map, use_count |-> use_count,
     next |-> next, prev |-> prev, dirty |-> dirty,
     calls |-> <<>>, evicted |-> <<>>, ok |-> TRUE]

Call(f, k, d) == [f |-> f, key |-> k, dirty |-> d]

\* CHECK(condition, error) with a false condition: the call raises.
Fail(c) == [c EXCEPT !.ok = FALSE]

\* aff4_obj.Flush(): persist when dirty; the container becomes dirty.
ObjFlush(c, k) ==
    LET p == StoredIn(k)
        touched == c.dirty[k] /\ p \in (c.in_use \cup c.lru_map)
        d1 == [c.dirty EXCEPT ![k] = FALSE]
    IN [c EXCEPT !.calls = Append(@, Call("Flush", k, c.dirty[k])),
                 !.dirty = IF touched THEN [d1 EXCEPT ![p] = TRUE] ELSE d1]

\* aff4_obj.Close()
ObjClose(c, k) ==
    [c EXCEPT !.calls = Append(@, Call("Close", k, c.dirty[k]))]

\* ------------------------------------------------------------------------
\* AFF4ObjectCacheEntry
\* ------------------------------------------------------------------------
unlink(c, self) ==
    LET pv1 == [c.prev EXCEPT ![c.next[self]] = c.prev[self]]
        nx1 == [c.next EXCEPT ![pv1[self]] = c.next[self]]
    IN [c EXCEPT !.next = [nx1 EXCEPT ![self] = self],
                 !.prev = [pv1 EXCEPT ![self] = self]]

append(c, self, entry) ==
    IF c.next[entry] # c.prev[entry]
    THEN Fail(c)
    ELSE LET nx1 == [c.next EXCEPT ![entry] = c.next[self]]
             pv1 == [c.prev EXCEPT ![nx1[self]] = entry]
             pv2 == [pv1 EXCEPT ![entry] = self]
             nx2 == [nx1 EXCEPT ![self] = entry]
         IN [c EXCEPT !.next = nx2, !.prev = pv2]

\* ------------------------------------------------------------------------
\* AFF4ObjectCache
\* ------------------------------------------------------------------------
\* max_items = size or self.max_items
TrimLimit(size) == IF size = NoSize \/ size = 0 THEN max_items ELSE size

\* Faulty variant of TrimLoop: evicts the most recently idle entry (lru_list.next).
RECURSIVE TrimLoop_Newest(_, _)
TrimLoop_Newest(c, limit) ==
    IF Cardinality(c.lru_map) > limit
    THEN LET older_item == c.next[0]
         IN IF older_item \notin c.lru_map
            THEN Fail(c)
            ELSE LET c1 == [c EXCEPT !.lru_map = @ \ {older_item},
                                     !.evicted = Append(@,
                                         [key |-> older_item,
                                          use_count |-> c.use_count[older_item],
                                          pinned |-> older_item \in c.in_use])]
                     c2 == unlink(c1, older_item)
                 IN TrimLoop_Newest(ObjFlush(c2, older_item), limit)
    ELSE c

RECURSIVE TrimLoop(_, _)
TrimLoop(c, limit) ==
    IF Cardinality(c.lru_map) > limit
    THEN LET older_item == c.prev[0]
         IN IF older_item \notin c.lru_map
            THEN Fail(c)
            ELSE LET c1 == [c EXCEPT !.lru_map = @ \ {older_item},
                                     !.evicted = Append(@,
                                         [key |-> older_item,
                                          use_count |-> c.use_count[older_item],
                                          pinned |-> older_item \in c.in_use])]
                     c2 == unlink(c1, older_item)
                 IN TrimLoop(ObjFlush(c2, older_item), limit)
    ELSE c

_Trim(c, size) == TrimLoop(c, TrimLimit(size))



\* Faulty variant of PutOp: the idle branch does not trim.
PutOp_NoTrim(c, key, in_use_state, d) ==
    IF key \in c.in_use THEN Fail(c)
    ELSE IF key \in c.lru_map THEN Fail(c)
    ELSE LET entry == [c EXCEPT !.next[key] = key, !.prev[key] = key,
                                !.use_count[key] = 0, !.dirty[key] = d]
         IN IF in_use_state
            THEN [entry EXCEPT !.use_count[key] = 1, !.in_use = @ \cup {key}]
            ELSE LET c1 == append(entry, 0, key)
                 IN IF ~c1.ok THEN c1
                    ELSE [c1 EXCEPT !.lru_map = @ \cup {key}]

PutOp(c, key, in_use_state, d) ==
    IF key \in c.in_use THEN Fail(c)
    ELSE IF key \in c.lru_map THEN Fail(c)
    ELSE LET entry == [c EXCEPT !.next[key] = key, !.prev[key] = key,
                                !.use_count[key] = 0, !.dirty[key] = d]
         IN IF in_use_state
            THEN [entry EXCEPT !.use_count[key] = 1, !.in_use = @ \cup {key}]
            ELSE LET c1 == append(entry, 0, key)
                 IN IF ~c1.ok THEN c1
                    ELSE _Trim([c1 EXCEPT !.lru_map = @ \cup {key}], NoSize)

\* Faulty variant of GetOp: an idle entry is handed out without leaving the idle
\* map and ring.
GetOp_LeaveIdle(c, key) ==
    IF key \in c.in_use
    THEN [c EXCEPT !.use_count[key] = @ + 1]
    ELSE IF key \notin c.lru_map
    THEN c
    ELSE [c EXCEPT !.use_count[key] = 1, !.in_use = @ \cup {key}]

\* Faulty variant of GetOp: a Get of an in-use entry sets the count to 1.
GetOp_ResetCount(c, key) ==
    IF key \in c.in_use
    THEN [c EXCEPT !.use_count[key] = 1]
    ELSE IF key \notin c.lru_map
    THEN c
    ELSE LET c1 == [c EXCEPT !.lru_map = @ \ {key}, !.use_count[key] = 1]
             c2 == unlink(c1, key)
         IN [c2 EXCEPT !.in_use = @ \cup {key}]

GetOp(c, key) ==
    IF key \in c.in_use
    THEN [c EXCEPT !.use_count[key] = @ + 1]
    ELSE IF key \notin c.lru_map
    THEN c
    ELSE LET c1 == [c EXCEPT !.lru_map = @ \ {key}, !.use_count[key] = 1]
             c2 == unlink(c1, key)
         IN [c2 EXCEPT !.in_use = @ \cup {key}]

\* Faulty variant of ReturnOp: the entry that became idle is not popped from in_use.
ReturnOp_KeepInUse(c, key) ==
    IF key \notin c.in_use THEN Fail(c)
    ELSE IF ~(c.use_count[key] > 0) THEN Fail(c)
    ELSE LET c1 == [c EXCEPT !.use_count[key] = @ - 1]
         IN IF c1.use_count[key] = 0
            THEN LET c2 == append(c1, 0, key)
                 IN IF ~c2.ok THEN c2
                    ELSE _Trim([c2 EXCEPT !.lru_map = @ \cup {key}], NoSize)
            ELSE c1

ReturnOp(c, key) ==
    IF key \notin c.in_use THEN Fail(c)
    ELSE IF ~(c.use_count[key] > 0) THEN Fail(c)
    ELSE LET c1 == [c EXCEPT !.use_count[key] = @ - 1]
         IN IF c1.use_count[key] = 0
            THEN LET c2 == append(c1, 0, key)
                 IN IF ~c2.ok THEN c2
                    ELSE _Trim([c2 EXCEPT !.lru_map = @ \cup {key},
                                         !.in_use = @ \ {key}], NoSize)
            ELSE c1

\* Faulty variant of RemoveOp: an in-use entry is dropped without a flush.
RemoveOp_NoFlushInUse(c, key) ==
    IF key \in c.lru_map
    THEN ObjFlush(unlink([c EXCEPT !.lru_map = @ \ {key}], key), key)
    ELSE IF key \in c.in_use
    THEN unlink([c EXCEPT !.in_use = @ \ {key}], key)
    ELSE Fail(c)

\* Faulty variant of RemoveOp: removing an absent key returns silently.
RemoveOp_Silent(c, key) ==
    IF key \in c.lru_map
    THEN ObjFlush(unlink([c EXCEPT !.lru_map = @ \ {key}], key), key)
    ELSE IF key \in c.in_use
    THEN ObjFlush(unlink([c EXCEPT !.in_use = @ \ {key}], key), key)
    ELSE c

RemoveOp(c, key) ==
    IF key \in c.lru_map
    THEN ObjFlush(unlink([c EXCEPT !.lru_map = @ \ {key}], key), key)
    ELSE IF key \in c.in_use
    THEN ObjFlush(unlink([c EXCEPT !.in_use = @ \ {key}], key), key)
    ELSE Fail(c)

\* for it in self.lru_list: if it.aff4_obj.IsDirty(): ... Flush()
RECURSIVE SweepPass(_, _, _)
SweepPass(c, it, found) ==
    IF it = 0 THEN [c |-> c, dirty_objects_found |-> found]
    ELSE IF c.dirty[it]
         THEN LET c1 == ObjFlush(c, it) IN SweepPass(c1, c1.next[it], TRUE)
         ELSE SweepPass(c, c.next[it], found)

\* Faulty variant of SweepLoop: one pass only.
SweepLoop_OnePass(c) == SweepPass(c, c.next[0], FALSE).c

\* while 1: ... if not dirty_objects_found: break
RECURSIVE SweepLoop(_)
SweepLoop(c) ==
    LET r == SweepPass(c, c.next[0], FALSE)
    IN IF r.dirty_objects_found THEN SweepLoop(r.c) ELSE r.c

\* for it in list(self.lru_map.values()): Close(); unlink()
RECURSIVE CloseAll(_, _)
CloseAll(c, order) ==
    IF order = <<>> THEN c
    ELSE CloseAll(unlink(ObjClose(c, Head(order)), Head(order)), Tail(order))

\* Faulty variant of FlushOp: no check for entries in use.
FlushOp_NoCheck(c, order) ==
    LET c1 == SweepLoop(c)
        c2 == CloseAll(c1, order)
    IN [c2 EXCEPT !.lru_map = {}]

\* order: the iteration order of the dict lru_map
FlushOp(c, order) ==
    IF Cardinality(c.in_use) # 0 THEN Fail(c)
    ELSE LET c1 == SweepLoop(c)
             c2 == CloseAll(c1, order)
         IN [c2 EXCEPT !.lru_map = {}]

\* for cb in list(self.flush_callbacks.values()): cb()
RECURSIVE RunCallbacks(_, _)
RunCallbacks(c, cbs) ==
    IF cbs = {} THEN c
    ELSE LET cb == CHOOSE x \in cbs : \A y \in cbs : x <= y
         IN RunCallbacks([c EXCEPT !.calls = Append(@, Call("Callback", cb, FALSE))],
                         cbs \ {cb})

\* MemoryDataStore.Flush
ResolverFlushOp(c, order) ==
    LET c1 == FlushOp(c, order)
    IN IF ~c1.ok THEN c1 ELSE RunCallbacks(c1, flush_callbacks)

\* ------------------------------------------------------------------------
\* MemoryDataStore: the values of the fact stores
\* ------------------------------------------------------------------------
\* A string is the sequence of its segments, so that startswith is the
\* prefix test on sequences.
StartsWith(str, prefix) ==
    /\ Len(prefix) <= Len(str)
    /\ SubSeq(str, 1, Len(prefix)) = prefix

\* The graph selectors: a volume URN names the persistent graph.
transient_graph == "transient"
any == "any"
volume_arn == "volume"
Graphs == {volume_arn, transient_graph, any}

\* Attribute names: the namespace, then the local name.
AFF4_VOLATILE_NAMESPACE == <<"volatile">>
AFF4_TYPE == <<"rdf", "type">>
AFF4_STORED == <<"aff4", "stored">>
AFF4_STREAM_SIZE == <<"aff4", "size">>
AFF4_DATASTREAM == <<"aff4", "dataStream">>
AFF4_VOLATILE_DIRTY == <<"volatile", "dirty">>
Attributes == {AFF4_TYPE, AFF4_STORED, AFF4_STREAM_SIZE, AFF4_DATASTREAM,
               AFF4_VOLATILE_DIRTY}

\* RDF values: the class of the value and its serialized string.
URN(str) == [type |-> "URN", v |-> str]
XSDInteger(str) == [type |-> "XSDInteger", v |-> str]
XSDString(str) == [type |-> "XSDString", v |-> str]

AFF4_IMAGE_TYPE == URN(<<"aff4:", "Image">>)
AFF4_ZIP_TYPE == URN(<<"aff4:", "ZipVolume">>)
AFF4_ZIP_SEGMENT_TYPE == URN(<<"aff4:", "zip_segment">>)
UnknownType == URN(<<"aff4:", "Unknown">>)

\* The serialized URN of the subject behind a cache key: 1 is a member of
\* the volume, 2 a file, 3 a content-hash pseudo-subject, 4 a symbolic
\* stream; every other key is a member of another volume.
VolumeURN == <<"aff4://", "vol">>
OtherURN == <<"aff4://", "other">>
SerializeToString(k) ==
    CASE k = 1 -> <<"aff4://", "vol", "a">>
      [] k = 2 -> <<"file://", "b">>
      [] k = 3 -> <<"aff4:sha512", ":", "c">>
      [] k = 4 -> <<"aff4:", "Zero">>
      [] OTHER -> <<"aff4://", "other", ToString(k)>>

\* An attribute slot of a subject: absent, one value, or a list of values.
NoSlot == [list |-> FALSE, vals |-> <<>>]
Scalar(value) == [list |-> FALSE, vals |-> <<value>>]
List(values) == [list |-> TRUE, vals |-> values]

EmptyStore == [k \in Keys |-> [a \in Attributes |-> NoSlot]]

\* The metadata members of a zip container: information.turtle,
\* information.turtle/directives (a member is absent, <<>>, or present with
\* its content, <<content>>) and the chunks information.turtle/%08d by index.
NoMembers == [turtle |-> <<>>, directives |-> <<>>, chunks |-> <<>>]

\* No AFF4ObjectCache.Flush is running.  While one runs, pc is the place it
\* stands at, it the entry the generator of lru_list stands on,
\* dirty_objects_found the flag of the pass, reentered counts the calls
\* into the cache made by the objects it has flushed, and yielded is the
\* parity of the number of entries the generator has yielded.
NoSweep == [pc |-> "idle", it |-> 0, dirty_objects_found |-> FALSE, reentered |-> 0,
            yielded |-> 0]

\* ------------------------------------------------------------------------
\* The state machine
\* ------------------------------------------------------------------------
Cached(c) == c.in_use \cup c.lru_map

\* The state a call leaves behind.  The fields of an entry that left the
\* cache are unreachable: they are left at the values of a fresh entry.
Store(r) ==
    /\ in_use' = r.in_use
    /\ lru_map' = r.lru_map
    /\ use_count' = [k \in Keys |-> IF k \in Cached(r) THEN r.use_count[k] ELSE 0]
    /\ next' = r.next
    /\ prev' = r.prev
    /\ dirty' = [k \in Keys |-> IF k \in Cached(r) THEN r.dirty[k] ELSE FALSE]

\* idle_order: the keys that became idle in this call come last; the keys
\* that are idle no more are dropped.
Arrive(arrived, r) ==
    idle_order' = SelectSeq(idle_order \o arrived, LAMBDA k : k \in r.lru_map)

Init ==
    /\ max_items \in 0..MaxMaxItems
    /\ in_use = {}
    /\ lru_map = {}
    /\ use_count = [k \in Keys |-> 0]
    /\ next = [n \in Nodes |-> n]
    /\ prev = [n \in Nodes |-> n]
    /\ dirty = [k \in Keys |-> FALSE]
    /\ flush_callbacks = {}
    /\ idle_order = <<>>
    /\ store = EmptyStore
    /\ transient_store = EmptyStore
    /\ members = NoMembers
    /\ outstanding = [k \in Keys |-> 0]
    /\ sweep = NoSweep
    /\ hdt = <<>>
    /\ cached_turtle = <<>>

Put(key, in_use_state, d) ==
    LET r == PutOp(Cache, key, in_use_state, d)
    IN /\ Store(r)
       /\ Arrive(IF r.ok /\ ~in_use_state THEN <<key>> ELSE <<>>, r)
       /\ UNCHANGED <<sweep, hdtVars, max_items, flush_callbacks, resolverVars>>

Get(key) ==
    /\ key \in in_use => use_count[key] < MaxUse
    /\ LET r == GetOp(Cache, key)
       IN /\ Store(r)
          /\ Arrive(<<>>, r)
    /\ UNCHANGED <<sweep, hdtVars, max_items, flush_callbacks, resolverVars>>

Return(key) ==
    LET r == ReturnOp(Cache, key)
    IN /\ Store(r)
       /\ Arrive(IF r.ok /\ key \notin r.in_use THEN <<key>> ELSE <<>>, r)
       /\ UNCHANGED <<sweep, hdtVars, max_items, flush_callbacks, resolverVars>>

Remove(key) ==
    LET r == RemoveOp(Cache, key)
    IN /\ Store(r)
       /\ Arrive(<<>>, r)
       /\ UNCHANGED <<sweep, hdtVars, max_items, flush_callbacks, resolverVars>>

TrimCall(size) ==
    LET r == _Trim(Cache, size)
    IN /\ Store(r)
       /\ Arrive(<<>>, r)
       /\ UNCHANGED <<sweep, hdtVars, max_items, flush_callbacks, resolverVars>>

CacheFlush ==
    \E order \in Perms(lru_map) :
        LET r == FlushOp(Cache, order)
        IN /\ Store(r)
           /\ Arrive(<<>>, r)
           /\ UNCHANGED <<sweep, hdtVars, max_items, flush_callbacks, resolverVars>>

ResolverFlush ==
    \E order \in Perms(lru_map) :
        LET r == ResolverFlushOp(Cache, order)
        IN /\ Store(r)
           /\ Arrive(<<>>, r)
           /\ UNCHANGED <<sweep, hdtVars, max_items, flush_callbacks, resolverVars>>

\* A client registers a callback in resolver.flush_callbacks.
RegisterFlushCallback(cb) ==
    /\ cb \notin flush_callbacks
    /\ flush_callbacks' = flush_callbacks \cup {cb}
    /\ UNCHANGED <<sweep, hdtVars, cacheVars, idle_order, resolverVars>>

\* The holder of an in-use object writes to it.
MarkDirty(key) ==
    /\ key \in in_use
    /\ ~dirty[key]
    /\ dirty' = [dirty EXCEPT ![key] = TRUE]
    /\ UNCHANGED <<sweep, hdtVars, max_items, in_use, lru_map, use_count, next, prev,
                   flush_callbacks, idle_order, resolverVars>>

Next ==
    \/ \E key \in Keys, in_use_state \in BOOLEAN, d \in BOOLEAN : Put(key, in_use_state, d)
    \/ \E key \in Keys : Get(key)
    \/ \E key \in Keys : Return(key)
    \/ \E key \in Keys : Remove(key)
    \/ \E size \in TrimSizes : TrimCall(size)
    \/ CacheFlush
    \/ ResolverFlush
    \/ \E cb \in Callbacks : RegisterFlushCallback(cb)
    \/ \E key \in Keys : MarkDirty(key)

Spec == Init /\ [][Next]_vars

TypeOK ==
    /\ max_items \in 0..MaxMaxItems
    /\ in_use \subseteq Keys
    /\ lru_map \subseteq Keys
    /\ use_count \in [Keys -> 0..MaxUse]
    /\ next \in [Nodes -> Nodes]
    /\ prev \in [Nodes -> Nodes]
    /\ dirty \in [Keys -> BOOLEAN]
    /\ flush_callbacks \subseteq Callbacks

\* ------------------------------------------------------------------------
\* Properties of the object cache.  A property of a call is stated for
\* every reachable state and every argument: r is the cache after the
\* call, with the trace of the call.
\* ------------------------------------------------------------------------
RECURSIVE Walk(_, _, _)
Walk(link, n, fuel) ==
    IF n = 0 \/ fuel = 0 THEN <<>>
    ELSE <<n>> \o Walk(link, link[n], fuel - 1)

\* The ring, from the node after the sentinel (most recently idle) on.
NewestFirst(c) == Walk(c.next, c.next[0], NumKeys + 1)
\* The ring, from the node before the sentinel (least recently idle) on.
OldestFirst(c) == Walk(c.prev, c.prev[0], NumKeys + 1)

Reverse(s) == [i \in 1..Len(s) |-> s[Len(s) + 1 - i]]

Without(s, k) == SelectSeq(s, LAMBDA x : x # k)

CountCalls(log, f, k) == Cardinality({i \in 1..Len(log) : log[i].f = f /\ log[i].key = k})

FlushedKeys(log) == LET fl == SelectSeq(log, LAMBDA x : x.f = "Flush")
                    IN [i \in 1..Len(fl) |-> fl[i].key]

EvictedKeys(ev) == [i \in 1..Len(ev) |-> ev[i].key]

\* The call left both collections, the ring, the use counts and the
\* objects as they were and invoked no hook.
NoEffect(r) ==
    /\ r.in_use = in_use
    /\ r.lru_map = lru_map
    /\ r.use_count = use_count
    /\ r.next = next
    /\ r.prev = prev
    /\ r.dirty = dirty
    /\ r.calls = <<>>
    /\ r.evicted = <<>>

\* C1: between calls every cached entry is in exactly one collection, chosen
\* by its use count: in in_use iff use_count >= 1, in the idle collection
\* (lru_map and the ring, which hold the same entries) iff use_count = 0;
\* no key is in both in_use and lru_map, and in-use entries are unlinked.
C1_OneCollection ==
    /\ in_use \cap lru_map = {}
    /\ \A k \in in_use \cup lru_map :
          /\ k \in in_use <=> use_count[k] >= 1
          /\ k \in lru_map <=> use_count[k] = 0
    /\ SeqToSet(NewestFirst(Cache)) = lru_map
    /\ Len(NewestFirst(Cache)) = Cardinality(lru_map)
    /\ OldestFirst(Cache) = Reverse(NewestFirst(Cache))
    /\ \A k \in Keys \ lru_map : next[k] = k /\ prev[k] = k

C1_Witness ==
    /\ \E k \in in_use : use_count[k] = 2
    /\ Cardinality(lru_map) = 2

\* C2: _Trim, whether run by Put, by Return or called directly, evicts and
\* flushes only idle entries: every entry it pops has use_count 0 and is in
\* lru_map, not in in_use, when it is popped; the objects flushed are the
\* popped ones; every entry that was in use before the call is still in
\* in_use with the same use count, but for the entry a Return is for.
TrimsOnlyIdle(r, returned) ==
    /\ \A i \in 1..Len(r.evicted) :
          /\ r.evicted[i].use_count = 0
          /\ ~r.evicted[i].pinned
          /\ r.evicted[i].key \notin r.in_use
    /\ FlushedKeys(r.calls) = EvictedKeys(r.evicted)
    /\ \A k \in in_use \ returned :
          k \in r.in_use /\ r.use_count[k] = use_count[k]

C2_PinnedNeverEvicted ==
    /\ \A k \in Keys, st \in BOOLEAN, d \in BOOLEAN :
          TrimsOnlyIdle(PutOp(Cache, k, st, d), {})
    /\ \A k \in Keys : TrimsOnlyIdle(ReturnOp(Cache, k), {k})
    /\ \A size \in TrimSizes : TrimsOnlyIdle(_Trim(Cache, size), {})

\* A Return makes an entry idle and the trim evicts another entry while a
\* third one is in use.
C2_Witness ==
    \E k \in in_use :
        LET r == ReturnOp(Cache, k)
        IN /\ Len(r.evicted) = 1
           /\ r.evicted[1].key # k
           /\ r.in_use # {}

\* C3: for every cached URN, Get(urn) followed by Return of the object
\* leaves the entry cached, in the collection it was in, with the use
\* count it had before the Get.
C3_GetReturnRestores ==
    \A k \in in_use \cup lru_map :
        LET g == GetOp(Cache, k)
            r == ReturnOp(g, k)
        IN /\ g.use_count[k] = use_count[k] + 1
           /\ k \in g.in_use
           /\ r.ok
           /\ r.use_count[k] = use_count[k]
           /\ k \in r.in_use <=> k \in in_use
           /\ k \in r.lru_map <=> k \in lru_map

\* An idle entry (0 -> 1 -> 0) next to one in use twice (2 -> 3 -> 2).
C3_Witness ==
    /\ \E k \in lru_map : Cardinality(lru_map) = 2 /\ next[0] # k
    /\ \E k \in in_use : use_count[k] = 2

\* C4: a Flush of the cache or of the resolver with an entry in use raises,
\* and then no object hook and no flush callback has run and the cache is
\* as before; with no entry in use, and so after the Return of the one
\* entry in use, the Flush succeeds.
C4_FlushWhileInUseFails ==
    /\ \A order \in Perms(lru_map) :
          LET c == FlushOp(Cache, order)
              m == ResolverFlushOp(Cache, order)
          IN IF in_use # {}
             THEN ~c.ok /\ NoEffect(c) /\ ~m.ok /\ NoEffect(m)
             ELSE c.ok /\ m.ok
    /\ \A k \in in_use :
          (in_use = {k} /\ use_count[k] = 1) =>
              LET c1 == ReturnOp(Cache, k)
              IN \A order \in Perms(c1.lru_map) :
                    /\ FlushOp(c1, order).ok
                    /\ ResolverFlushOp(c1, order).ok

C4_Witness ==
    /\ flush_callbacks # {}
    /\ \E k \in lru_map : dirty[k]
    /\ \E k \in in_use : in_use = {k} /\ use_count[k] = 1
    /\ \A order \in Perms(lru_map) : ~ResolverFlushOp(Cache, order).ok

\* C5: the ring holds the idle entries in the order they became idle, and
\* the entries a call evicts are the ones that became idle earliest: the
\* evicted keys followed by the keys left in the ring are the idle keys
\* before the call followed by the key the call made idle.  A Get of an
\* idle entry followed by its Return makes it the most recent one.  With
\* max_items = 1, Put(a, idle) then Put(b, idle) flushes a and leaves only
\* b in lru_map.
OldestEvicted(r, arrived) ==
    EvictedKeys(r.evicted) \o OldestFirst(r) = idle_order \o arrived

C5_EvictsLeastRecentlyIdle ==
    /\ OldestFirst(Cache) = idle_order
    /\ \A k \in Keys \ (in_use \cup lru_map), d \in BOOLEAN :
          OldestEvicted(PutOp(Cache, k, FALSE, d), <<k>>)
    /\ \A k \in in_use :
          OldestEvicted(ReturnOp(Cache, k),
                        IF use_count[k] = 1 THEN <<k>> ELSE <<>>)
    /\ \A size \in TrimSizes : OldestEvicted(_Trim(Cache, size), <<>>)
    /\ \A k \in lru_map :
          LET r == ReturnOp(GetOp(Cache, k), k)
          IN /\ r.evicted = <<>>
             /\ r.next[0] = k
             /\ OldestFirst(r) = Without(idle_order, k) \o <<k>>
    /\ \A a \in lru_map, b \in Keys \ (in_use \cup lru_map), d \in BOOLEAN :
          max_items = 1 =>
              LET r == PutOp(Cache, b, FALSE, d)
              IN /\ FlushedKeys(r.calls) = <<a>>
                 /\ r.lru_map = {b}

\* Two idle entries, the older one with the larger key, and a Put that
\* evicts.
C5_Witness ==
    /\ max_items = 2
    /\ Len(idle_order) = 2
    /\ idle_order[1] > idle_order[2]
    /\ \E k \in Keys \ (in_use \cup lru_map) :
          EvictedKeys(PutOp(Cache, k, FALSE, FALSE).evicted) = <<idle_order[1]>>

\* C6: _Trim(0) with no entry in use evicts every idle entry, flushing each
\* exactly once, oldest first, and leaves lru_map and the ring empty.
C6_TrimZeroEvictsAll ==
    in_use = {} =>
        LET r == _Trim(Cache, 0)
        IN /\ r.lru_map = {}
           /\ r.next[0] = 0
           /\ r.prev[0] = 0
           /\ FlushedKeys(r.calls) = idle_order

\* C7: the idle collection holds at most max_items entries (in lru_map and
\* in the ring alike) after every call, however many entries are in use.
C7_IdleBounded ==
    /\ Cardinality(lru_map) <= max_items
    /\ Len(NewestFirst(Cache)) <= max_items

C7_Witness ==
    /\ max_items >= 1
    /\ Cardinality(lru_map) = max_items
    /\ Cardinality(in_use) > max_items

\* C8 as stated: an object that leaves the cache by eviction in _Trim or
\* by Remove has Flush and then Close called on it, once each.
FlushedThenClosed(r, k) ==
    /\ CountCalls(r.calls, "Flush", k) = 1
    /\ CountCalls(r.calls, "Close", k) = 1
    /\ \A i, j \in 1..Len(r.calls) :
          (r.calls[i].key = k /\ r.calls[i].f = "Flush" /\
           r.calls[j].key = k /\ r.calls[j].f = "Close") => i < j

C8_FlushThenCloseOnExit ==
    /\ \A k \in in_use \cup lru_map : FlushedThenClosed(RemoveOp(Cache, k), k)
    /\ \A k \in Keys, st \in BOOLEAN, d \in BOOLEAN :
          LET r == PutOp(Cache, k, st, d)
          IN \A i \in 1..Len(r.evicted) : FlushedThenClosed(r, r.evicted[i].key)
    /\ \A k \in Keys :
          LET r == ReturnOp(Cache, k)
          IN \A i \in 1..Len(r.evicted) : FlushedThenClosed(r, r.evicted[i].key)
    /\ \A size \in TrimSizes :
          LET r == _Trim(Cache, size)
          IN \A i \in 1..Len(r.evicted) : FlushedThenClosed(r, r.evicted[i].key)

\* C8 amended: an object that leaves the cache by eviction in _Trim or by
\* Remove has Flush called on it exactly once before the call returns;
\* Close is not called on it, and no hook of another object is called.
FlushedOnly(r, left) ==
    /\ r.ok
    /\ FlushedKeys(r.calls) = left
    /\ Len(r.calls) = Len(left)
    /\ \A i \in 1..Len(left) :
          /\ CountCalls(r.calls, "Flush", left[i]) = 1
          /\ CountCalls(r.calls, "Close", left[i]) = 0
          /\ left[i] \notin r.in_use \cup r.lru_map

C8_FlushedOnExit ==
    /\ \A k \in in_use \cup lru_map : FlushedOnly(RemoveOp(Cache, k), <<k>>)
    /\ \A k \in Keys \ (in_use \cup lru_map), st \in BOOLEAN, d \in BOOLEAN :
          LET r == PutOp(Cache, k, st, d)
          IN FlushedOnly(r, EvictedKeys(r.evicted))
    /\ \A k \in in_use :
          LET r == ReturnOp(Cache, k)
          IN FlushedOnly(r, EvictedKeys(r.evicted))
    /\ \A size \in TrimSizes :
          LET r == _Trim(Cache, size)
          IN FlushedOnly(r, EvictedKeys(r.evicted))

\* A dirty object in use is removed, and a Put would evict a dirty object.
C8_Witness ==
    /\ \E k \in in_use : dirty[k] /\ RemoveOp(Cache, k).calls = <<Call("Flush", k, TRUE)>>
    /\ \E k \in Keys \ (in_use \cup lru_map) :
          LET r == PutOp(Cache, k, FALSE, FALSE)
          IN Len(r.evicted) = 1 /\ r.calls[1].dirty

\* C9: after a successful Flush the idle collection is empty, every object
\* that was idle has been closed exactly once and no other object has, and
\* no object was dirty when it was closed.
FlushedAndClosed(r) ==
    /\ r.ok
    /\ r.lru_map = {}
    /\ r.next[0] = 0
    /\ r.prev[0] = 0
    /\ \A k \in Keys :
          CountCalls(r.calls, "Close", k) = IF k \in lru_map THEN 1 ELSE 0
    /\ \A i \in 1..Len(r.calls) :
          r.calls[i].f = "Close" => ~r.calls[i].dirty

C9_FlushClosesClean ==
    in_use = {} =>
        \A order \in Perms(lru_map) :
            /\ FlushedAndClosed(FlushOp(Cache, order))
            /\ FlushedAndClosed(ResolverFlushOp(Cache, order))

\* An object is flushed, made dirty again by the flush of another, and
\* flushed a second time before the objects are closed.
C9_Witness ==
    /\ in_use = {}
    /\ \E order \in Perms(lru_map), k \in lru_map :
          LET r == FlushOp(Cache, order)
          IN /\ Cardinality({i \in 1..Len(r.calls) :
                    r.calls[i] = Call("Flush", k, TRUE)}) = 2
             /\ CountCalls(r.calls, "Close", k) = 1

\* C10: a Put of a key that is cached, a Return of a key that is not in
\* in_use and a Remove of a key that is not cached raise; after the failure
\* both collections, the ring and every use count are as before and no
\* object hook has run.  The other Put, Return and Remove calls succeed.
C10_ViolationsFailCleanly ==
    /\ \A k \in Keys, st \in BOOLEAN, d \in BOOLEAN :
          LET r == PutOp(Cache, k, st, d)
          IN IF k \in in_use \cup lru_map THEN ~r.ok /\ NoEffect(r) ELSE r.ok
    /\ \A k \in Keys :
          LET r == ReturnOp(Cache, k)
          IN IF k \notin in_use THEN ~r.ok /\ NoEffect(r) ELSE r.ok
    /\ \A k \in Keys :
          LET r == RemoveOp(Cache, k)
          IN IF k \notin in_use \cup lru_map THEN ~r.ok /\ NoEffect(r) ELSE r.ok

\* One key in use, one idle, one not cached: each of the three calls has a
\* key it fails on.
C10_Witness ==
    /\ in_use # {}
    /\ \E k \in lru_map : ~ReturnOp(Cache, k).ok /\ ~PutOp(Cache, k, TRUE, FALSE).ok
    /\ \E k \in Keys : ~RemoveOp(Cache, k).ok

\* ------------------------------------------------------------------------
\* MemoryDataStore: Add, Set, Get
\* ------------------------------------------------------------------------
\* The resolver as one value, threaded through the methods of a call; ok is
\* FALSE once the call has raised.
Resolver == [store |-> store, transient_store |-> transient_store, ok |-> TRUE]

RDFValueTypes == {"URN", "XSDInteger", "XSDString"}
isRDFValue(value) == value.type \in RDFValueTypes

\* A native string, which is not an RDFValue.
NativeStr(str) == [type |-> "str", v |-> str]

\* Faulty variant of AddValue: appends without the membership tests.
AddValue_Duplicates(slot, value) ==
    IF slot = NoSlot
    THEN Scalar(value)
    ELSE List(Append(slot.vals, value))

\* Faulty variant of AddValue: a new value goes in front.
AddValue_Prepend(slot, value) ==
    IF slot = NoSlot
    THEN Scalar(value)
    ELSE IF value \notin SeqToSet(slot.vals)
         THEN List(<<value>> \o slot.vals)
         ELSE slot

\* The slot after Add of value.
AddValue(slot, value) ==
    IF slot = NoSlot
    THEN Scalar(value)
    ELSE IF ~slot.list
         THEN IF value # slot.vals[1]
              THEN List(<<slot.vals[1], value>>)
              ELSE slot
         ELSE IF value \notin SeqToSet(slot.vals)
              THEN List(Append(slot.vals, value))
              ELSE slot

\* Faulty variant of AddOp: every graph selector writes the persistent store.
AddOp_AlwaysPersistent(R, graph, subject, attribute, value) ==
    IF ~isRDFValue(value)
    THEN Fail(R)
    ELSE [R EXCEPT !.store[subject][attribute] = AddValue(@, value)]

AddOp(R, graph, subject, attribute, value) ==
    IF ~isRDFValue(value)
    THEN Fail(R)
    ELSE IF graph = transient_graph
         THEN [R EXCEPT !.transient_store[subject][attribute] = AddValue(@, value)]
         ELSE [R EXCEPT !.store[subject][attribute] = AddValue(@, value)]

SetOp(R, graph, subject, attribute, value) ==
    IF ~isRDFValue(value)
    THEN Fail(R)
    ELSE IF graph = transient_graph
         THEN [R EXCEPT !.transient_store[subject][attribute] = Scalar(value)]
         ELSE [R EXCEPT !.store[subject][attribute] = Scalar(value)]

\* utils.asList(resa, resb): the values of resa, then the values of resb.
asList(resa, resb) == List(resa.vals \o resb.vals)

\* The slot returned by Get: NoSlot stands for None.
GetSlot(R, graph, subject, attribute) ==
    IF graph = any
    THEN asList(R.transient_store[subject][attribute], R.store[subject][attribute])
    ELSE IF graph = transient_graph
         THEN R.transient_store[subject][attribute]
         ELSE R.store[subject][attribute]

\* ------------------------------------------------------------------------
\* The fact store as a state machine
\* ------------------------------------------------------------------------
\* MemoryDataStore.__init__: AFF4ObjectCache(10)
ResolverCacheSize == 10

InitResolver ==
    /\ max_items = ResolverCacheSize
    /\ in_use = {}
    /\ lru_map = {}
    /\ use_count = [k \in Keys |-> 0]
    /\ next = [n \in Nodes |-> n]
    /\ prev = [n \in Nodes |-> n]
    /\ dirty = [k \in Keys |-> FALSE]
    /\ flush_callbacks = {}
    /\ idle_order = <<>>
    /\ store = EmptyStore
    /\ transient_store = EmptyStore
    /\ members = NoMembers
    /\ outstanding = [k \in Keys |-> 0]
    /\ sweep = NoSweep
    /\ hdt = <<>>
    /\ cached_turtle = <<>>

\* The facts written by the clients of the store.
PersistentFacts ==
    {<<1, AFF4_TYPE, t>> : t \in {AFF4_IMAGE_TYPE, AFF4_ZIP_SEGMENT_TYPE, UnknownType}}
    \cup {<<1, AFF4_STORED, t>> :
              t \in {URN(VolumeURN), URN(OtherURN), XSDString(<<"file.dd">>)}}
    \cup {<<1, AFF4_STREAM_SIZE, XSDInteger(<<"100">>)>>,
          <<2, AFF4_TYPE, AFF4_IMAGE_TYPE>>,
          <<2, AFF4_TYPE, UnknownType>>,
          <<2, AFF4_VOLATILE_DIRTY, XSDInteger(<<"1">>)>>,
          <<3, AFF4_STREAM_SIZE, XSDInteger(<<"100">>)>>}

TransientFacts ==
    {<<1, AFF4_TYPE, AFF4_IMAGE_TYPE>>, <<1, AFF4_TYPE, UnknownType>>}

WritableFacts(graph) ==
    IF graph = transient_graph THEN TransientFacts ELSE PersistentFacts

StoreR(r) ==
    /\ store' = r.store
    /\ transient_store' = r.transient_store

Add(graph, subject, attribute, value) ==
    /\ StoreR(AddOp(Resolver, graph, subject, attribute, value))
    /\ UNCHANGED <<sweep, hdtVars, cacheVars, flush_callbacks, idle_order, members, outstanding>>

Set(graph, subject, attribute, value) ==
    /\ StoreR(SetOp(Resolver, graph, subject, attribute, value))
    /\ UNCHANGED <<sweep, hdtVars, cacheVars, flush_callbacks, idle_order, members, outstanding>>

NextStore ==
    \/ \E graph \in Graphs : \E f \in WritableFacts(graph) : Add(graph, f[1], f[2], f[3])
    \/ \E graph \in Graphs : \E f \in WritableFacts(graph) : Set(graph, f[1], f[2], f[3])

SpecStore == InitResolver /\ [][NextStore]_vars

\* ------------------------------------------------------------------------
\* Properties of Add, Set and Get
\* ------------------------------------------------------------------------
Distinct(seq) == \A i, j \in 1..Len(seq) : seq[i] = seq[j] => i = j

SlotOK(slot) ==
    IF slot.list
    THEN Len(slot.vals) >= 2 /\ Distinct(slot.vals)
    ELSE Len(slot.vals) <= 1

\* The slot that holds the values vals.
SlotOf(vals) == IF Len(vals) = 0 THEN NoSlot
                ELSE IF Len(vals) = 1 THEN Scalar(vals[1]) ELSE List(vals)

RECURSIVE FirstOccurrences(_)
FirstOccurrences(seq) ==
    IF seq = <<>>
    THEN <<>>
    ELSE LET front == FirstOccurrences(SubSeq(seq, 1, Len(seq) - 1))
             last == seq[Len(seq)]
         IN IF last \in SeqToSet(front) THEN front ELSE Append(front, last)

RECURSIVE AddAll(_, _, _, _, _)
AddAll(R, graph, subject, attribute, values) ==
    IF values = <<>>
    THEN R
    ELSE AddAll(AddOp(R, graph, subject, attribute, Head(values)),
                graph, subject, attribute, Tail(values))

TypeValues == {AFF4_IMAGE_TYPE, AFF4_ZIP_SEGMENT_TYPE, UnknownType}
AddSequences == UNION {[1..n -> TypeValues] : n \in 1..3}
WriteGraphs == {volume_arn, transient_graph}

\* C11: after any sequence of Add and Set calls on either graph, every
\* attribute slot of every subject holds a single value or a list of at
\* least two pairwise distinct values; Add of a value twice to an empty slot
\* leaves the scalar value, not a list with a duplicate.
C11_ScalarOrDistinctList ==
    /\ \A k \in Keys, a \in Attributes :
          SlotOK(store[k][a]) /\ SlotOK(transient_store[k][a])
    /\ \A graph \in WriteGraphs : \A f \in WritableFacts(graph) :
          LET r1 == AddOp(Resolver, graph, f[1], f[2], f[3])
              r2 == AddOp(r1, graph, f[1], f[2], f[3])
          IN /\ r2 = r1
             /\ GetSlot(Resolver, graph, f[1], f[2]) = NoSlot
                   => GetSlot(r2, graph, f[1], f[2]) = Scalar(f[3])

C11_Witness ==
    /\ store[1][AFF4_TYPE].list
    /\ Len(store[1][AFF4_TYPE].vals) = 3
    /\ transient_store[1][AFF4_TYPE].list
    /\ ~store[1][AFF4_STORED].list
    /\ Len(store[1][AFF4_STORED].vals) = 1

\* C12: a sequence of Add calls on one slot that starts empty leaves in it
\* the distinct values added, in the order of their first insertion, as a
\* scalar when there is one and as a list otherwise; Get on that graph
\* returns them: Add 100, Add 100, Add 200 gives the list [100, 200].
C12_FirstInsertionOrder ==
    /\ \A graph \in WriteGraphs : \A f \in WritableFacts(graph) :
          LET old == GetSlot(Resolver, graph, f[1], f[2])
              r == AddOp(Resolver, graph, f[1], f[2], f[3])
          IN GetSlot(r, graph, f[1], f[2]) =
                SlotOf(FirstOccurrences(Append(old.vals, f[3])))
    /\ \A graph \in WriteGraphs :
          GetSlot(Resolver, graph, 1, AFF4_TYPE) = NoSlot
             => \A values \in AddSequences :
                   GetSlot(AddAll(Resolver, graph, 1, AFF4_TYPE, values),
                           graph, 1, AFF4_TYPE)
                      = SlotOf(FirstOccurrences(values))
    /\ store[1][AFF4_STREAM_SIZE] = NoSlot
          => GetSlot(AddAll(Resolver, volume_arn, 1, AFF4_STREAM_SIZE,
                            <<XSDInteger(<<"100">>), XSDInteger(<<"100">>),
                              XSDInteger(<<"200">>)>>),
                     volume_arn, 1, AFF4_STREAM_SIZE)
                = List(<<XSDInteger(<<"100">>), XSDInteger(<<"200">>)>>)

C12_Witness ==
    /\ store[1][AFF4_STREAM_SIZE] = Scalar(XSDInteger(<<"100">>))
    /\ store[1][AFF4_TYPE] =
          List(<<UnknownType, AFF4_IMAGE_TYPE, AFF4_ZIP_SEGMENT_TYPE>>)
    /\ transient_store[1][AFF4_TYPE] = List(<<UnknownType, AFF4_IMAGE_TYPE>>)

\* C13: an Add or a Set with the merged selector is rejected and changes
\* neither the persistent store nor the transient store.
C13_MergedWriteRejected ==
    \A f \in PersistentFacts :
        LET ra == AddOp(Resolver, any, f[1], f[2], f[3])
            rs == SetOp(Resolver, any, f[1], f[2], f[3])
        IN /\ ~ra.ok /\ ra.store = store /\ ra.transient_store = transient_store
           /\ ~rs.ok /\ rs.store = store /\ rs.transient_store = transient_store

\* ------------------------------------------------------------------------
\* Turtle: terms, text, _DumpToTurtle and LoadFromTurtle
\* ------------------------------------------------------------------------
\* rdflib terms.
URIRef(str) == [kind |-> "URIRef", datatype |-> "", v |-> str]
Literal(str, datatype) == [kind |-> "Literal", datatype |-> datatype, v |-> str]

\* value.GetRaptorTerm(): the raw term of an RDF value.
GetRaptorTerm(value) ==
    CASE value.type = "URN" -> URIRef(value.v)
      [] value.type = "XSDInteger" -> Literal(value.v, "xsd:integer")
      [] OTHER -> Literal(value.v, "xsd:string")

\* registry.RDF_TYPE_MAP: the value class by datatype.
RDF_TYPE_MAP == [dt \in {"xsd:integer", "xsd:string"} |->
                    IF dt = "xsd:integer" THEN "XSDInteger" ELSE "XSDString"]

\* The lines of a Turtle text: prefix declarations, triples, empty lines.
NoTriple == <<<<>>, <<>>, URIRef(<<>>)>>
PrefixLine(ns) == [kind |-> "prefix", ns |-> ns, triple |-> NoTriple]
TripleLine(t) == [kind |-> "triple", ns |-> "", triple |-> t]
EmptyLine == [kind |-> "", ns |-> "", triple |-> NoTriple]

\* The elements of a set in a fixed order.
RECURSIVE SetToSeq(_)
SetToSeq(S) ==
    IF S = {}
    THEN <<>>
    ELSE LET x == CHOOSE y \in S : TRUE
         IN <<x>> \o SetToSeq(S \ {x})

\* The namespaces a graph needs a prefix for; aff4 is bound by the caller.
Namespaces(g) ==
    {"aff4"} \cup {t[2][1] : t \in g}
             \cup {"xsd" : t \in {u \in g : u[3].kind = "Literal"}}

\* g.serialize(format='turtle')
Serialize(g) ==
    [i \in 1..Cardinality(Namespaces(g)) |-> PrefixLine(SetToSeq(Namespaces(g))[i])]
    \o <<EmptyLine>>
    \o [i \in 1..Cardinality(g) |-> TripleLine(SetToSeq(g)[i])]

\* g.parse(data, format='turtle'): the triples of a text.
Parse(text) == {text[i].triple : i \in {j \in 1..Len(text) : text[j].kind = "triple"}}

_should_ignore(subject, predicate, object) ==
    IF predicate = AFF4_TYPE
    THEN object = AFF4_ZIP_SEGMENT_TYPE \/ (object = object /\ object = AFF4_ZIP_TYPE)
    ELSE IF predicate = AFF4_STORED
         THEN IF ~StartsWith(object.v, <<"aff4://">>)
              THEN TRUE
              ELSE StartsWith(subject, object.v)
         ELSE FALSE

\* The subjects that _DumpToTurtle does not skip.
Dumped(R, k) ==
    /\ \E a \in Attributes : R.store[k][a] # NoSlot
    /\ \/ R.store[k][AFF4_TYPE] # NoSlot
       \/ StartsWith(SerializeToString(k), <<"aff4:sha512", ":">>)

\* The facts of a store: subject, attribute, value.
Facts(st) ==
    UNION {{<<ka[1], ka[2], st[ka[1]][ka[2]].vals[i]>> :
               i \in DOMAIN st[ka[1]][ka[2]].vals} : ka \in Keys \X Attributes}

\* Faulty variant of DumpGraph: iterates over both stores.
DumpGraph_BothStores(R, verbose) ==
    {<<SerializeToString(f[1]), f[2], GetRaptorTerm(f[3])>> :
        f \in {h \in Facts(R.store) \cup Facts(R.transient_store) :
                  /\ verbose \/ ~StartsWith(h[2], AFF4_VOLATILE_NAMESPACE)
                  /\ ~_should_ignore(SerializeToString(h[1]), h[2], h[3])}}

\* Faulty variant of DumpGraph: without the ignore policy.
DumpGraph_NoIgnore(R, verbose) ==
    {<<SerializeToString(f[1]), f[2], GetRaptorTerm(f[3])>> :
        f \in {h \in Facts(R.store) :
                  /\ Dumped(R, h[1])
                  /\ verbose \/ ~StartsWith(h[2], AFF4_VOLATILE_NAMESPACE)}}

\* The rdflib graph g built by _DumpToTurtle.
DumpGraph(R, verbose) ==
    {<<SerializeToString(f[1]), f[2], GetRaptorTerm(f[3])>> :
        f \in {h \in Facts(R.store) :
                  /\ Dumped(R, h[1])
                  /\ verbose \/ ~StartsWith(h[2], AFF4_VOLATILE_NAMESPACE)
                  /\ ~_should_ignore(SerializeToString(h[1]), h[2], h[3])}}

_DumpToTurtle(R, verbose) == Serialize(DumpGraph(R, verbose))

\* The subject whose serialized URN is str.
KeyOf(str) == CHOOSE k \in Keys : SerializeToString(k) = str

\* The RDF value of a parsed term.
FromTerm(term) ==
    IF term.kind = "URIRef"
    THEN URN(term.v)
    ELSE IF term.datatype \in DOMAIN RDF_TYPE_MAP
         THEN [type |-> RDF_TYPE_MAP[term.datatype], v |-> term.v]
         ELSE XSDString(term.v)

RECURSIVE LoadTriples(_, _, _)
LoadTriples(R, triples, graph) ==
    IF triples = <<>>
    THEN R
    ELSE LET t == Head(triples)
         IN LoadTriples(AddOp(R, graph, KeyOf(t[1]), t[2], FromTerm(t[3])),
                        Tail(triples), graph)

LoadFromTurtle(R, data, graph) == LoadTriples(R, SetToSeq(Parse(data)), graph)

\* ------------------------------------------------------------------------
\* Properties of _DumpToTurtle and LoadFromTurtle
\* ------------------------------------------------------------------------
FreshResolver == [store |-> EmptyStore, transient_store |-> EmptyStore, ok |-> TRUE]

TripleOf(f) == <<SerializeToString(f[1]), f[2], GetRaptorTerm(f[3])>>

NonVolatile(a) == ~StartsWith(a, AFF4_VOLATILE_NAMESPACE)

NotIgnored(f) == ~_should_ignore(SerializeToString(f[1]), f[2], f[3])

\* The fresh resolver after loading the non-verbose dump of the resolver.
RoundTrip == LoadFromTurtle(FreshResolver, _DumpToTurtle(Resolver, FALSE), volume_arn)

\* C15, as claimed: the round trip reproduces, for every subject that has a
\* non-volatile attribute, the facts of the subject except those filtered by
\* the ignore policy.
C15_RoundTrip ==
    \A k \in Keys :
        (\E a \in Attributes : NonVolatile(a) /\ store[k][a] # NoSlot)
           => {f \in Facts(RoundTrip.store) : f[1] = k}
                 = {f \in Facts(store) : f[1] = k /\ NotIgnored(f)}

\* C15, amended: the round trip reproduces the facts with a non-volatile
\* attribute, not filtered by the ignore policy, of the subjects that have a
\* type attribute or are content-hash pseudo-subjects, and nothing else.
C15_RoundTripOfTyped ==
    /\ RoundTrip.ok
    /\ RoundTrip.transient_store = EmptyStore
    /\ Facts(RoundTrip.store) =
          {f \in Facts(store) :
              Dumped(Resolver, f[1]) /\ NonVolatile(f[2]) /\ NotIgnored(f)}
    /\ \A k \in Keys, a \in Attributes : SlotOK(RoundTrip.store[k][a])

C15_Witness ==
    /\ store[1][AFF4_TYPE].list
    /\ Len(store[1][AFF4_STORED].vals) = 3
    /\ store[1][AFF4_STREAM_SIZE] # NoSlot
    /\ store[2][AFF4_TYPE] # NoSlot
    /\ store[2][AFF4_VOLATILE_DIRTY] # NoSlot
    /\ store[3][AFF4_STREAM_SIZE] # NoSlot
    /\ Facts(RoundTrip.store) # {}
    /\ Facts(RoundTrip.store) # Facts(store)

\* ------------------------------------------------------------------------
\* MemoryDataStore.AFF4FactoryOpen
\* ------------------------------------------------------------------------
\* registry.AFF4_TYPE_MAP: the handler by type URI or by URN scheme.
AFF4_TYPE_MAP ==
    [id \in {AFF4_IMAGE_TYPE.v, AFF4_ZIP_SEGMENT_TYPE.v, AFF4_ZIP_TYPE.v, <<"file">>} |->
        CASE id = AFF4_IMAGE_TYPE.v -> "AFF4Image"
          [] id = AFF4_ZIP_SEGMENT_TYPE.v -> "ZipFileSegment"
          [] id = AFF4_ZIP_TYPE.v -> "ZipFile"
          [] OTHER -> "FileBackedObject"]

None == "None"

\* registry.AFF4_TYPE_MAP.get(id)
MapGet(id) == IF id \in DOMAIN AFF4_TYPE_MAP THEN AFF4_TYPE_MAP[id] ELSE None

\* urn.Parse().scheme
Scheme(str) == IF str[1] = "file://" THEN <<"file">> ELSE <<"aff4">>

\* self.streamFactory.isSymbolicStream(urn)
isSymbolicStream(urn) == SerializeToString(urn) = <<"aff4:", "Zero">>

\* for typ in uri_types: the loop stops at the first type with a handler.
RECURSIVE TypeHandler(_)
TypeHandler(uri_types) ==
    IF uri_types = <<>>
    THEN None
    ELSE LET handler == MapGet(Head(uri_types).v)
         IN IF handler # None THEN handler ELSE TypeHandler(Tail(uri_types))

\* Faulty variant of SelectHandler: the scheme of the URN goes first.
SelectHandler_SchemeFirst(R, urn) ==
    LET handler == MapGet(Scheme(SerializeToString(urn)))
    IN IF handler = None
       THEN TypeHandler(GetSlot(R, any, urn, AFF4_TYPE).vals)
       ELSE handler

\* The handler of an uncached URN that is neither symbolic nor a content
\* hash.
SelectHandler(R, urn) ==
    LET uri_types == GetSlot(R, any, urn, AFF4_TYPE)
        handler == TypeHandler(uri_types.vals)
    IN IF handler = None
       THEN MapGet(Scheme(SerializeToString(urn)))
       ELSE handler

\* The resolver and its cache as one value, with the object returned by the
\* call (0: none) and the error raised.
NoError == [type |-> "", urn |-> 0]
Factory(R, c) ==
    c @@ [store |-> R.store, transient_store |-> R.transient_store,
          obj |-> 0, error |-> NoError]

Raise(F, type, urn) == [Fail(F) EXCEPT !.error = [type |-> type, urn |-> urn]]

\* handler(resolver=self, urn=urn, version=version): a new, clean object.
Construct(F, handler, urn) ==
    [F EXCEPT !.calls = Append(@, Call(handler, urn, FALSE))]

\* obj.LoadFromURN()
ObjLoadFromURN(F, urn) ==
    [F EXCEPT !.calls = Append(@, Call("LoadFromURN", urn, FALSE))]

\* obj.Prepare()
ObjPrepare(F, urn) ==
    [F EXCEPT !.calls = Append(@, Call("Prepare", urn, F.dirty[urn]))]

\* self.ObjectCache.Put(obj, True); obj.Prepare(); return obj
CacheAndPrepare(F, urn) ==
    LET F1 == PutOp(F, urn, TRUE, FALSE)
    IN IF ~F1.ok THEN F1 ELSE [ObjPrepare(F1, urn) EXCEPT !.obj = urn]

\* Faulty variant of AFF4FactoryOpenOp: without the cache lookup.
AFF4FactoryOpenOp_NoLookup(R, c, urn) ==
    LET F == Factory(R, c)
        handler == SelectHandler(R, urn)
    IN IF handler = None
       THEN Raise(F, "IOError", urn)
       ELSE CacheAndPrepare(ObjLoadFromURN(Construct(F, handler, urn), urn), urn)

\* Faulty variant of AFF4FactoryOpenOp: the object is cached before the
\* handler is looked up.
AFF4FactoryOpenOp_PutFirst(R, c, urn) ==
    LET F == GetOp(Factory(R, c), urn)
        handler == SelectHandler(R, urn)
    IN IF urn \in Cached(c)
       THEN [ObjPrepare(F, urn) EXCEPT !.obj = urn]
       ELSE IF handler = None
            THEN Raise(PutOp(F, urn, TRUE, FALSE), "IOError", urn)
            ELSE CacheAndPrepare(ObjLoadFromURN(Construct(F, handler, urn), urn), urn)

AFF4FactoryOpenOp(R, c, urn) ==
    LET F == GetOp(Factory(R, c), urn)
    IN IF urn \in Cached(c)
       THEN [ObjPrepare(F, urn) EXCEPT !.obj = urn]
       ELSE IF isSymbolicStream(urn)
            THEN CacheAndPrepare(Construct(F, "createSymbolic", urn), urn)
            ELSE IF StartsWith(SerializeToString(urn), <<"aff4:sha512">>)
                 THEN Raise(F, "TypeError", 0)
                 ELSE LET handler == SelectHandler(R, urn)
                      IN IF handler = None
                         THEN Raise(F, "IOError", urn)
                         ELSE CacheAndPrepare(
                                 ObjLoadFromURN(Construct(F, handler, urn), urn), urn)

\* ------------------------------------------------------------------------
\* The factory as a state machine
\* ------------------------------------------------------------------------
\* The type facts written by the clients of the factory.
FactoryFacts(graph) ==
    IF graph = transient_graph
    THEN {<<1, AFF4_TYPE, AFF4_IMAGE_TYPE>>}
    ELSE {<<1, AFF4_TYPE, AFF4_IMAGE_TYPE>>, <<1, AFF4_TYPE, UnknownType>>,
          <<2, AFF4_TYPE, UnknownType>>}

AFF4FactoryOpen(urn) ==
    /\ urn \in in_use => use_count[urn] < MaxUse
    /\ LET r == AFF4FactoryOpenOp(Resolver, Cache, urn)
       IN /\ Store(r)
          /\ Arrive(<<>>, r)
          /\ StoreR(r)
          /\ outstanding' = IF r.ok THEN [outstanding EXCEPT ![urn] = @ + 1]
                                    ELSE outstanding
    /\ UNCHANGED <<sweep, hdtVars, max_items, flush_callbacks, members>>

\* MemoryDataStore.Return(obj)
ResolverReturn(urn) ==
    /\ LET r == ReturnOp(Cache, urn)
       IN /\ Store(r)
          /\ Arrive(IF r.ok /\ urn \notin r.in_use THEN <<urn>> ELSE <<>>, r)
          /\ outstanding' = IF r.ok THEN [outstanding EXCEPT ![urn] = @ - 1]
                                    ELSE outstanding
    /\ UNCHANGED <<sweep, hdtVars, max_items, flush_callbacks, store, transient_store, members>>

NextFactory ==
    \/ \E urn \in Keys : AFF4FactoryOpen(urn)
    \/ \E urn \in Keys : ResolverReturn(urn)
    \/ \E graph \in WriteGraphs : \E f \in FactoryFacts(graph) : Add(graph, f[1], f[2], f[3])

SpecFactory == InitResolver /\ [][NextFactory]_vars

\* ------------------------------------------------------------------------
\* Properties of AFF4FactoryOpen
\* ------------------------------------------------------------------------
\* The URNs that AFF4FactoryOpen opens through a handler of the registry.
Typed(urn) ==
    /\ ~isSymbolicStream(urn)
    /\ ~StartsWith(SerializeToString(urn), <<"aff4:sha512">>)

\* The declared types of a subject over the merged graphs.
DeclaredTypes(urn) == transient_store[urn][AFF4_TYPE].vals \o store[urn][AFF4_TYPE].vals

\* The handler the dispatch rule gives, None when there is none.
ExpectedHandler(urn) ==
    LET types == DeclaredTypes(urn)
        registered == {i \in DOMAIN types : types[i].v \in DOMAIN AFF4_TYPE_MAP}
        first == CHOOSE i \in registered : \A j \in registered : i <= j
        scheme == Scheme(SerializeToString(urn))
    IN IF registered # {}
       THEN AFF4_TYPE_MAP[types[first].v]
       ELSE IF scheme \in DOMAIN AFF4_TYPE_MAP THEN AFF4_TYPE_MAP[scheme] ELSE None

\* C16: over any sequence of AFF4FactoryOpen and Return calls on URNs with
\* a handler the cache holds at most one object per URN: the first open
\* constructs the object and puts it in in_use with use count 1, a later
\* open of a cached URN returns the cached object and raises its use count
\* by one; the use count is the number of opens minus the number of
\* returns, and an object is idle only when the two are equal.
C16_OneInstancePerURN ==
    /\ in_use \cap lru_map = {}
    /\ \A urn \in Keys :
          IF urn \in in_use
          THEN use_count[urn] = outstanding[urn] /\ outstanding[urn] >= 1
          ELSE outstanding[urn] = 0
    /\ \A urn \in Keys :
          LET r == AFF4FactoryOpenOp(Resolver, Cache, urn)
          IN IF urn \in in_use \cup lru_map
             THEN /\ r.ok
                  /\ r.obj = urn
                  /\ r.calls = <<Call("Prepare", urn, dirty[urn])>>
                  /\ r.in_use = in_use \cup {urn}
                  /\ r.lru_map = lru_map \ {urn}
                  /\ r.use_count[urn] = use_count[urn] + 1
             ELSE Typed(urn) /\ ExpectedHandler(urn) # None
                     => /\ r.ok
                        /\ r.obj = urn
                        /\ r.calls = <<Call(ExpectedHandler(urn), urn, FALSE),
                                       Call("LoadFromURN", urn, FALSE),
                                       Call("Prepare", urn, FALSE)>>
                        /\ r.in_use = in_use \cup {urn}
                        /\ r.lru_map = lru_map
                        /\ r.use_count[urn] = 1

C16_Witness ==
    /\ 1 \in in_use
    /\ use_count[1] = MaxUse
    /\ outstanding[1] = MaxUse
    /\ 2 \in lru_map
    /\ idle_order = <<2>>

\* C17: AFF4FactoryOpen of an uncached URN that is neither symbolic nor a
\* content hash takes the handler of the first declared type, in stored
\* order over the merged graphs, that the registry knows; the handler of
\* the URN scheme is used only when no declared type has a handler.
C17_FirstRegisteredType ==
    \A urn \in Keys :
        Typed(urn) /\ urn \notin in_use \cup lru_map
           => LET r == AFF4FactoryOpenOp(Resolver, Cache, urn)
              IN IF ExpectedHandler(urn) = None
                 THEN ~r.ok
                 ELSE r.ok /\ Head(r.calls) = Call(ExpectedHandler(urn), urn, FALSE)

C17_Witness ==
    /\ transient_store[1][AFF4_TYPE] = Scalar(UnknownType)
    /\ store[1][AFF4_TYPE] =
          List(<<UnknownType, AFF4_ZIP_SEGMENT_TYPE, AFF4_IMAGE_TYPE>>)
    /\ store[2][AFF4_TYPE] = Scalar(UnknownType)

\* C18: when no declared type of the URN has a handler and the URN scheme
\* has none, AFF4FactoryOpen fails with an I/O error that names the URN; no
\* object is constructed or cached, and in_use, the idle collection and
\* both fact stores are as before the call.
C18_NoHandlerFailsCleanly ==
    \A urn \in Keys :
        /\ Typed(urn)
        /\ urn \notin in_use \cup lru_map
        /\ \A i \in DOMAIN DeclaredTypes(urn) :
              DeclaredTypes(urn)[i].v \notin DOMAIN AFF4_TYPE_MAP
        /\ Scheme(SerializeToString(urn)) \notin DOMAIN AFF4_TYPE_MAP
        => LET r == AFF4FactoryOpenOp(Resolver, Cache, urn)
           IN /\ ~r.ok
              /\ r.error = [type |-> "IOError", urn |-> urn]
              /\ r.obj = 0
              /\ r.calls = <<>>
              /\ NoEffect(r)
              /\ NewestFirst(r) = NewestFirst(Cache)
              /\ r.store = store
              /\ r.transient_store = transient_store

C18_Witness ==
    /\ store[1][AFF4_TYPE] = Scalar(UnknownType)
    /\ transient_store[1][AFF4_TYPE] = NoSlot
    /\ 1 \notin in_use \cup lru_map
    /\ 2 \in in_use
    /\ ~AFF4FactoryOpenOp(Resolver, Cache, 1).ok

\* ------------------------------------------------------------------------
\* MemoryDataStore.DumpToTurtle: the append protocol
\* ------------------------------------------------------------------------
\* turtle.toDirectivesAndTripes(text): the prefix lines and the triple lines.
toDirectivesAndTripes(text) ==
    [directives |-> SelectSeq(text, LAMBDA line : line.kind = "prefix"),
     triples |-> SelectSeq(text, LAMBDA line : line.kind = "triple")]

\* turtle.difference(a, b): the lines of b that are not lines of a.
difference(a, b) == SelectSeq(b, LAMBDA line : line \notin SeqToSet(a))

\* zipcontainer.ContainsMember of the chunk information.turtle/%08d
ContainsChunk(m, index) == index \in DOMAIN m.chunks

\* The segment information.turtle/%08d is written.
WriteChunk(m, index, text) ==
    [m EXCEPT !.chunks = [i \in DOMAIN m.chunks \cup {index} |->
                             IF i = index THEN text ELSE m.chunks[i]]]

\* The loop that copies the chunks into information.turtle: from index on,
\* up to the first index that is no member.
RECURSIVE CopyChunks(_, _)
CopyChunks(m, turtleContainerIndex) ==
    IF ContainsChunk(m, turtleContainerIndex)
    THEN m.chunks[turtleContainerIndex] \o CopyChunks(m, turtleContainerIndex + 1)
    ELSE <<>>

\* information.turtle is written again: the directives, an empty line, the
\* chunks.
Rebuild(m, directives_txt) ==
    [m EXCEPT !.turtle = <<directives_txt \o <<EmptyLine>> \o CopyChunks(m, 0)>>]

\* The outcome of a DumpToTurtle call: the members of the container, ok
\* (FALSE when the call raised), and hangs (the call never returns).
Returned(m) == [members |-> m, ok |-> TRUE, hangs |-> FALSE]
Raised(m) == [members |-> m, ok |-> FALSE, hangs |-> FALSE]
Hangs(m) == [members |-> m, ok |-> FALSE, hangs |-> TRUE]

\* The first append: the chunked structures are created.
FirstAppend(R, m) ==
    LET old == toDirectivesAndTripes(m.turtle[1])
        m1 == [m EXCEPT !.directives = <<old.directives>>]
        m2 == WriteChunk(m1, 0, old.triples)
        current == toDirectivesAndTripes(_DumpToTurtle(R, FALSE))
        directives_difference == difference(old.directives, current.directives)
        directives_txt == IF Len(directives_difference) # 0
                          THEN old.directives \o directives_difference
                          ELSE old.directives
        m3 == IF Len(directives_difference) # 0
              THEN [m2 EXCEPT !.directives = <<directives_txt>>]
              ELSE m2
        m4 == WriteChunk(m3, 1, current.triples)
    IN Returned(Rebuild(m4, directives_txt))

\* A later append: the probe loop tests index 2 again and again, and the
\* name utils.SmartUnicodeself of line 371 does not exist: the call raises
\* before it writes.
LaterAppend(R, m) ==
    IF ContainsChunk(m, 2)
    THEN Hangs(m)
    ELSE Raised(m)

\* Faulty variant of DumpToTurtleOp: every append is taken for the first.
DumpToTurtleOp_AlwaysFirst(R, m) ==
    IF m.turtle = <<>>
    THEN Returned([m EXCEPT !.turtle = <<_DumpToTurtle(R, FALSE)>>])
    ELSE FirstAppend(R, m)

\* Faulty variant of DumpToTurtleOp: the first append does not write
\* information.turtle again.
DumpToTurtleOp_NoRebuild(R, m) ==
    IF m.turtle = <<>>
    THEN Returned([m EXCEPT !.turtle = <<_DumpToTurtle(R, FALSE)>>])
    ELSE IF m.directives = <<>>
         THEN Returned([FirstAppend(R, m).members EXCEPT !.turtle = m.turtle])
         ELSE LaterAppend(R, m)

DumpToTurtleOp(R, m) ==
    IF m.turtle = <<>>
    THEN Returned([m EXCEPT !.turtle = <<_DumpToTurtle(R, FALSE)>>])
    ELSE IF m.directives = <<>>
         THEN FirstAppend(R, m)
         ELSE LaterAppend(R, m)

\* ------------------------------------------------------------------------
\* The container metadata as a state machine
\* ------------------------------------------------------------------------
\* The facts written between the calls of DumpToTurtle.
TurtleFacts(graph) ==
    IF graph = transient_graph
    THEN {<<1, AFF4_TYPE, UnknownType>>}
    ELSE {<<1, AFF4_TYPE, AFF4_IMAGE_TYPE>>,
          <<1, AFF4_STREAM_SIZE, XSDInteger(<<"100">>)>>,
          <<2, AFF4_TYPE, AFF4_IMAGE_TYPE>>,
          <<2, AFF4_STORED, URN(OtherURN)>>,
          <<3, AFF4_STREAM_SIZE, XSDInteger(<<"100">>)>>}

DumpToTurtle ==
    /\ members' = DumpToTurtleOp(Resolver, members).members
    /\ UNCHANGED <<sweep, hdtVars, cacheVars, flush_callbacks, idle_order, store,
                   transient_store, outstanding>>

NextTurtle ==
    \/ \E graph \in WriteGraphs : \E f \in TurtleFacts(graph) : Add(graph, f[1], f[2], f[3])
    \/ DumpToTurtle

SpecTurtle == InitResolver /\ [][NextTurtle]_vars

\* ------------------------------------------------------------------------
\* Properties of DumpToTurtle
\* ------------------------------------------------------------------------
\* C19: chunks are append-only: over any sequence of DumpToTurtle calls on
\* a container, a chunk information.turtle/<index> that has been written
\* stays a member with the same content; so chunk 0 after a second append
\* is what it was right after the first append.
C19_ChunksAppendOnly ==
    [][\A index \in DOMAIN members.chunks :
          /\ index \in DOMAIN members'.chunks
          /\ members'.chunks[index] = members.chunks[index]]_vars

C19_Witness ==
    /\ DOMAIN members.chunks = {0, 1}
    /\ members.chunks[0] # <<>>
    /\ members.chunks[1] # members.chunks[0]
    /\ toDirectivesAndTripes(_DumpToTurtle(Resolver, FALSE)).triples # members.chunks[1]
    /\ DumpToTurtleOp(Resolver, members).members.chunks = members.chunks

\* The chunks 0..n, each once, in ascending order of the index.
RECURSIVE ChunksUpTo(_, _)
ChunksUpTo(m, n) ==
    IF n < 0 THEN <<>> ELSE ChunksUpTo(m, n - 1) \o m.chunks[n]

\* information.turtle is the directives block, then the chunks 0..n.
Assembled(m, n) ==
    /\ DOMAIN m.chunks = 0..n
    /\ m.turtle = <<m.directives[1] \o <<EmptyLine>> \o ChunksUpTo(m, n)>>

\* C20: after every completed append, the first or a later one, the member
\* information.turtle is the current directives block followed by the
\* content of every chunk 0..N in ascending order, each once, N being the
\* index written by the append.
C20_TurtleIsDirectivesThenChunks ==
    /\ members.directives # <<>>
          => Assembled(members, Cardinality(DOMAIN members.chunks) - 1)
    /\ LET r == DumpToTurtleOp(Resolver, members)
           N == Cardinality(DOMAIN r.members.chunks) - 1
       IN members.turtle # <<>> /\ r.ok
             => /\ ~ContainsChunk(members, N)
                /\ r.members.chunks[N] =
                      toDirectivesAndTripes(_DumpToTurtle(Resolver, FALSE)).triples
                /\ r.members.directives # <<>>
                /\ Assembled(r.members, N)

C20_Witness ==
    /\ DOMAIN members.chunks = {0, 1}
    /\ members.chunks[0] # <<>>
    /\ members.chunks[1] # <<>>
    /\ members.chunks[1] # members.chunks[0]
    /\ Len(members.directives[1]) > Cardinality(Namespaces(Parse(members.chunks[0])))
    /\ Assembled(members, 1)

\* The triples held by the metadata members of a container.
SegmentTriples(m) ==
    UNION ({Parse(m.turtle[i]) : i \in DOMAIN m.turtle}
           \cup {Parse(m.chunks[i]) : i \in DOMAIN m.chunks})

\* C14: transient facts are never serialized: two resolver states with the
\* same persistent store and different transient stores give the same
\* _DumpToTurtle output, a write with the transient selector does not change
\* the output, every triple of the output is a fact of the persistent store,
\* and so is every triple that DumpToTurtle adds to the container.
C14_TransientNeverSerialized ==
    /\ \A verbose \in BOOLEAN :
          LET text == _DumpToTurtle(Resolver, verbose)
          IN /\ text = _DumpToTurtle([Resolver EXCEPT !.transient_store = EmptyStore], verbose)
             /\ \A f \in TransientFacts :
                   /\ _DumpToTurtle(AddOp(Resolver, transient_graph, f[1], f[2], f[3]), verbose) = text
                   /\ _DumpToTurtle(SetOp(Resolver, transient_graph, f[1], f[2], f[3]), verbose) = text
             /\ Parse(text) \subseteq {TripleOf(f) : f \in Facts(store)}
    /\ SegmentTriples(DumpToTurtleOp(Resolver, members).members)
          \subseteq SegmentTriples(members) \cup {TripleOf(f) : f \in Facts(store)}

C14_Witness ==
    /\ transient_store[1][AFF4_TYPE] = List(<<AFF4_IMAGE_TYPE, UnknownType>>)
    /\ store[1][AFF4_TYPE] = Scalar(AFF4_ZIP_SEGMENT_TYPE)
    /\ store[1][AFF4_STREAM_SIZE] # NoSlot
    /\ Parse(_DumpToTurtle(Resolver, FALSE)) # {}
    /\ SegmentTriples(DumpToTurtleOp(Resolver, members).members) # {}

\* ------------------------------------------------------------------------
\* Properties of the later appends of DumpToTurtle
\* ------------------------------------------------------------------------
\* The directive lines a container holds before an append: the member
\* information.turtle/directives, or the prefix lines of information.turtle
\* while that member has not been written.
StoredDirectives(m) ==
    IF m.directives # <<>>
    THEN m.directives[1]
    ELSE toDirectivesAndTripes(m.turtle[1]).directives

\* C21: the directives block grows by line-set difference: after each
\* append, the first or a later one, the stored directives are the lines
\* stored before, in their order, followed by exactly the lines of the
\* freshly computed directives that were not stored; no stored line is
\* removed.
C21_DirectivesGrowByDifference ==
    LET r == DumpToTurtleOp(Resolver, members)
        stored == StoredDirectives(members)
        fresh == toDirectivesAndTripes(_DumpToTurtle(Resolver, FALSE)).directives
    IN members.turtle # <<>>
          => r.members.directives = <<stored \o difference(stored, fresh)>>

\* C23: a second or later append, made when the chunks 0..k-1 exist,
\* returns, and leaves exactly the chunks 0..k, chunk 0 as it was and chunk
\* k holding the triples computed at this append.
C23_LaterAppendWritesNextChunk ==
    LET k == Cardinality(DOMAIN members.chunks)
        r == DumpToTurtleOp(Resolver, members)
    IN members.directives # <<>> /\ DOMAIN members.chunks = 0..(k - 1)
          => /\ r.ok
             /\ ~r.hangs
             /\ DOMAIN r.members.chunks = 0..k
             /\ r.members.chunks[0] = members.chunks[0]
             /\ r.members.chunks[k] =
                   toDirectivesAndTripes(_DumpToTurtle(Resolver, FALSE)).triples

\* ------------------------------------------------------------------------
\* _Trim when an object's Flush raises
\* ------------------------------------------------------------------------
\* aff4_obj.Flush() raises: nothing is persisted, the call is over.
ObjFlushRaises(c, k) ==
    [c EXCEPT !.calls = Append(@, Call("Flush", k, c.dirty[k])), !.ok = FALSE]

\* The loop of _Trim, the objects of the set raising failing in Flush: the
\* error leaves the loop and _Trim.
RECURSIVE TrimLoopRaising(_, _, _)
TrimLoopRaising(c, limit, raising) ==
    IF Cardinality(c.lru_map) > limit
    THEN LET older_item == c.prev[0]
         IN IF older_item \notin c.lru_map
            THEN Fail(c)
            ELSE LET c1 == [c EXCEPT !.lru_map = @ \ {older_item},
                                     !.evicted = Append(@,
                                         [key |-> older_item,
                                          use_count |-> c.use_count[older_item],
                                          pinned |-> older_item \in c.in_use])]
                     c2 == unlink(c1, older_item)
                 IN IF older_item \in raising
                    THEN ObjFlushRaises(c2, older_item)
                    ELSE TrimLoopRaising(ObjFlush(c2, older_item), limit, raising)
    ELSE c

_TrimRaising(c, size, raising) == TrimLoopRaising(c, TrimLimit(size), raising)

\* The entry is in the idle collection: in lru_map and linked in the ring.
InIdleCollection(c, key) == key \in c.lru_map /\ c.next[key] # key

\* C25: when the Flush of an entry that _Trim evicts raises, the error
\* reaches the caller and the entry is still in the idle collection (in
\* lru_map and in the ring): no object leaves the cache without a completed
\* flush.
C25_FailedFlushKeepsEntry ==
    \A size \in TrimSizes : \A raising \in SUBSET Keys :
        LET r == _TrimRaising(Cache, size, raising)
        IN r.evicted # <<>> /\ ~r.ok
              => InIdleCollection(r, r.evicted[Len(r.evicted)].key)

\* ------------------------------------------------------------------------
\* AFF4ObjectCache.Flush, step by step, with objects that re-enter the cache
\* ------------------------------------------------------------------------
\* The calls into the cache that the objects flushed by one Flush may make.
MaxReentries == 2

\* What the Flush() of the object of entry it may do to the cache before it
\* returns: nothing, Get and Return of another idle entry, or Put of a new
\* idle object (which runs _Trim).  arrived: the keys that became idle.
Reentries(c, it) ==
    {[c |-> c, arrived |-> <<>>]}
    \cup {[c |-> ReturnOp(GetOp(c, k), k), arrived |-> <<k>>] :
              k \in c.lru_map \ {it}}
    \cup {[c |-> PutOp(c, k, FALSE, d), arrived |-> <<k>>] :
              k \in Keys \ (Cached(c) \cup {it}), d \in BOOLEAN}

\* A client puts an idle object while no Flush runs.
ClientPut(key, d) ==
    /\ sweep.pc = "idle"
    /\ Put(key, FALSE, d)

\* Flush is called with no entry in use: the first pass begins at
\* lru_list.next.
FlushBegin ==
    /\ sweep.pc = "idle"
    /\ Cardinality(in_use) = 0
    /\ sweep' = [pc |-> "pass", it |-> next[0], dirty_objects_found |-> FALSE,
                 reentered |-> 0, yielded |-> 0]
    /\ UNCHANGED <<cacheVars, flush_callbacks, idle_order, resolverVars, hdtVars>>

\* The body of the for loop on the entry it, then entry = entry.next.
FlushVisit ==
    /\ sweep.pc = "pass"
    /\ sweep.it # 0
    /\ IF dirty[sweep.it]
       THEN \E e \in Reentries(Cache, sweep.it) :
               LET r == ObjFlush(e.c, sweep.it)
               IN /\ e.arrived # <<>> => sweep.reentered < MaxReentries
                  /\ Store(r)
                  /\ idle_order' =
                        SelectSeq(SelectSeq(idle_order,
                                            LAMBDA k : k \notin SeqToSet(e.arrived))
                                  \o e.arrived,
                                  LAMBDA k : k \in r.lru_map)
                  /\ sweep' = [sweep EXCEPT
                                  !.it = r.next[sweep.it],
                                  !.dirty_objects_found = TRUE,
                                  !.reentered = IF e.arrived # <<>> THEN @ + 1 ELSE @,
                                  !.yielded = 1 - @]
       ELSE /\ sweep' = [sweep EXCEPT !.it = next[sweep.it], !.yielded = 1 - @]
            /\ UNCHANGED <<in_use, lru_map, use_count, next, prev, dirty, idle_order>>
    /\ UNCHANGED <<max_items, flush_callbacks, resolverVars, hdtVars>>

\* The generator is back at the sentinel: another pass, or the loop ends.
FlushPassEnd ==
    /\ sweep.pc = "pass"
    /\ sweep.it = 0
    /\ sweep' = IF sweep.dirty_objects_found
                THEN [sweep EXCEPT !.it = next[0], !.dirty_objects_found = FALSE]
                ELSE [sweep EXCEPT !.pc = "close"]
    /\ UNCHANGED <<cacheVars, flush_callbacks, idle_order, resolverVars, hdtVars>>

\* All entries are closed and unlinked, the map is cleared: Flush returns.
FlushClose ==
    /\ sweep.pc = "close"
    /\ \E order \in Perms(lru_map) :
          LET r == [CloseAll(Cache, order) EXCEPT !.lru_map = {}]
          IN /\ Store(r)
             /\ Arrive(<<>>, r)
    /\ sweep' = NoSweep
    /\ UNCHANGED <<max_items, flush_callbacks, resolverVars, hdtVars>>

FlushStep == FlushVisit \/ FlushPassEnd \/ FlushClose

NextSweep ==
    \/ \E key \in Keys, d \in BOOLEAN : ClientPut(key, d)
    \/ FlushBegin
    \/ FlushVisit
    \/ FlushPassEnd
    \/ FlushClose

\* A Flush that has been called keeps running.
SpecSweep == Init /\ [][NextSweep]_vars /\ WF_vars(FlushStep)

\* C24: a cache Flush called with no entry in use returns, also when the
\* objects it flushes re-enter the cache (Get and Return of other entries,
\* Put of new ones with the _Trim that follows), the re-entries being
\* finitely many.
C24_FlushTerminates == (sweep.pc = "pass") ~> (sweep.pc = "idle")

\* ------------------------------------------------------------------------
\* Properties of AFF4FactoryOpen: the order of the steps
\* ------------------------------------------------------------------------
\* The URN is opened by one of the construction branches: the symbolic
\* stream, the content-hash reference, or a typed object with a handler.
Constructible(urn) ==
    \/ isSymbolicStream(urn)
    \/ StartsWith(SerializeToString(urn), <<"aff4:sha512">>)
    \/ SelectHandler(Resolver, urn) # None

\* C26: AFF4FactoryOpen of an uncached URN, in every construction branch,
\* constructs the object, calls LoadFromURN on it, puts it into the cache
\* in the in-use state and then calls Prepare on it, in this order, before
\* it returns; on a cache hit only Prepare is called.
C26_LoadPutPrepare ==
    \A urn \in Keys :
        LET r == AFF4FactoryOpenOp(Resolver, Cache, urn)
        IN IF urn \in Cached(Cache)
           THEN r.calls = <<Call("Prepare", urn, dirty[urn])>>
           ELSE Constructible(urn)
                   => /\ r.ok
                      /\ Len(r.calls) = 3
                      /\ r.calls[2] = Call("LoadFromURN", urn, FALSE)
                      /\ r.calls[3] = Call("Prepare", urn, FALSE)
                      /\ urn \in r.in_use
                      /\ r.use_count[urn] = 1

\* ------------------------------------------------------------------------
\* MemoryDataStore: the queries
\* ------------------------------------------------------------------------
\* The subjects of a store (the keys of the dict) in the order of its
\* iteration, each with its attributes.  The order is a fixed function of
\* the content.
Items(st) ==
    SetToSeq({k \in Keys : \E a \in Attributes : st[k][a] # NoSlot})

\* An item of the iteration: the subject and its dict of attributes.
ItemsOf(st) == [i \in DOMAIN Items(st) |-> [subject |-> Items(st)[i],
                                             data |-> st[Items(st)[i]]]]

\* The selection of the stores at the head of each query but the last.
storeitems(R, graph) ==
    IF graph = any \/ graph = None
    THEN ItemsOf(R.store) \o ItemsOf(R.transient_store)
    ELSE IF graph = transient_graph
         THEN ItemsOf(R.transient_store)
         ELSE ItemsOf(R.store)

\* What a generator yields over the items: the results per item, in order.
RECURSIVE Chain(_)
Chain(seqs) ==
    IF seqs = <<>> THEN <<>> ELSE Head(seqs) \o Chain(Tail(seqs))

\* The values of a slot as the queries see them: a scalar is one value.
Values(slot) == slot.vals

QueryPredicate(R, graph, predicate) ==
    LET items == storeitems(R, graph)
    IN Chain([n \in DOMAIN items |->
                [i \in DOMAIN Values(items[n].data[predicate]) |->
                    <<URN(SerializeToString(items[n].subject)), URN(predicate),
                      Values(items[n].data[predicate])[i]>>]])

QueryPredicateObject(R, graph, predicate, object) ==
    LET items == storeitems(R, graph)
    IN Chain([n \in DOMAIN items |->
                IF object \in SeqToSet(Values(items[n].data[predicate]))
                THEN <<URN(SerializeToString(items[n].subject))>>
                ELSE <<>>])

QuerySubjectPredicate(R, graph, subject, predicate) ==
    LET items == storeitems(R, graph)
    IN Chain([n \in DOMAIN items |->
                IF items[n].subject = subject
                THEN Values(items[n].data[predicate])
                ELSE <<>>])

SelectSubjectsByPrefix(R, graph, prefix) ==
    LET items == storeitems(R, graph)
    IN Chain([n \in DOMAIN items |->
                IF StartsWith(SerializeToString(items[n].subject), prefix)
                THEN <<URN(SerializeToString(items[n].subject))>>
                ELSE <<>>])

\* Faulty variant of QueryPredicatesBySubject: the transient selector reads
\* the persistent store too.
QueryPredicatesBySubject_Persistent(R, graph, subject) ==
    LET st == R.store
        preds == SetToSeq({a \in Attributes : st[subject][a] # NoSlot})
    IN [i \in DOMAIN preds |-> <<URN(preds[i]), st[subject][preds[i]]>>]

\* The pairs (predicate, value or list) of one subject; two branches only.
QueryPredicatesBySubject(R, graph, subject) ==
    LET st == IF graph = transient_graph THEN R.transient_store ELSE R.store
        preds == SetToSeq({a \in Attributes : st[subject][a] # NoSlot})
    IN [i \in DOMAIN preds |-> <<URN(preds[i]), st[subject][preds[i]]>>]

\* ------------------------------------------------------------------------
\* Properties of the queries
\* ------------------------------------------------------------------------
\* The arguments the queries are asked with.
QueryObjects == {f[3] : f \in PersistentFacts \cup TransientFacts}
QueryPrefixes == {<<>>, <<"aff4://">>, <<"aff4://", "vol">>, <<"file://">>}
\* The resolver as it is, with the transient store alone, with the
\* persistent store alone.
Views == {"both", "transient", "persistent"}
View(v) ==
    CASE v = "transient" -> [Resolver EXCEPT !.store = EmptyStore]
      [] v = "persistent" -> [Resolver EXCEPT !.transient_store = EmptyStore]
      [] OTHER -> Resolver

\* The selector means for a query what the claim says; q[v, graph] is the
\* result of the query on the view v with the selector graph.  Merged is
\* the persistent result followed by the transient one, the transient
\* result is that of the transient store alone, the persistent result that
\* of the persistent store alone.
SelectorMeaning(q) ==
    /\ q["both", any] = q["both", volume_arn] \o q["both", transient_graph]
    /\ q["both", transient_graph] = q["transient", transient_graph]
    /\ q["both", volume_arn] = q["persistent", volume_arn]
    /\ q["persistent", transient_graph] = <<>>
    /\ q["transient", volume_arn] = <<>>

\* The four queries that select the stores with storeitems.
FourQueriesSelect ==
    /\ \A predicate \in Attributes :
          /\ SelectorMeaning([v \in Views, graph \in Graphs |->
                                 QueryPredicate(View(v), graph, predicate)])
          /\ \A object \in QueryObjects :
                SelectorMeaning([v \in Views, graph \in Graphs |->
                    QueryPredicateObject(View(v), graph, predicate, object)])
          /\ \A subject \in Keys :
                SelectorMeaning([v \in Views, graph \in Graphs |->
                    QuerySubjectPredicate(View(v), graph, subject, predicate)])
    /\ \A prefix \in QueryPrefixes :
          SelectorMeaning([v \in Views, graph \in Graphs |->
                              SelectSubjectsByPrefix(View(v), graph, prefix)])

\* C28: the graph selector means the same in every read query: for
\* QueryPredicate, QueryPredicateObject, QuerySubjectPredicate,
\* SelectSubjectsByPrefix and QueryPredicatesBySubject the merged result is
\* the persistent matches followed by the transient ones, the transient
\* result comes from the transient store only and the persistent result
\* from the persistent store only.
C28_SelectorMeansTheSame ==
    /\ FourQueriesSelect
    /\ \A subject \in Keys :
          SelectorMeaning([v \in Views, graph \in Graphs |->
                              QueryPredicatesBySubject(View(v), graph, subject)])

\* ------------------------------------------------------------------------
\* HDTAssistedDataStore
\* ------------------------------------------------------------------------
\* The index: hdt is <<>> (None) or <<text>>, the document opened on an
\* index built from the Turtle text; cached_turtle is the index file, absent
\* (<<>>) or built from a text.
\* hdt.search_triples(s, p, o): the triples of the index that match; the
\* empty string matches everything.
Wild == <<>>
search_triples(h, s, p, o) ==
    SetToSeq({t \in Parse(h[1]) : /\ s = Wild \/ t[1] = s
                                  /\ p = Wild \/ t[2] = p
                                  /\ o = Wild \/ t[3] = o})

\* A generator object, as a value that a caller receives.
Gen(outcome) == [type |-> "generator", v |-> outcome]

\* The outcome of iterating a query: the items yielded and the error that
\* ended the iteration ("": none).
Yielded(items) == [yields |-> items, error |-> ""]
YieldedThenRaised(items, error) == [yields |-> items, error |-> error]

\* MemoryDataStore.QuerySubject: the loop variable is the (key, value) pair
\* of the dict, and subject_regex.match of a pair raises.
QuerySubject(R, graph, subject_regex) ==
    IF storeitems(R, graph) = <<>>
    THEN Yielded(<<>>)
    ELSE YieldedThenRaised(<<>>, "TypeError")

\* The generator object of the base query with the transient selector is
\* the first item when the selector is the transient one.
TransientFirst(graph, outcome) ==
    IF graph = transient_graph THEN <<Gen(outcome)>> ELSE <<>>

HDT_QuerySubject(R, h, graph, subject_regex) ==
    LET first == TransientFirst(graph, QuerySubject(R, transient_graph, subject_regex))
    IN IF h = <<>>
       THEN YieldedThenRaised(first, "AttributeError")
       ELSE LET triples == search_triples(h, Wild, <<"?">>, <<"?">>)
            IN IF \E i \in DOMAIN triples : StartsWith(triples[i][1], subject_regex)
               THEN YieldedThenRaised(first, "AttributeError")
               ELSE YieldedThenRaised(first, QuerySubject(R, graph, subject_regex).error)

HDT_QueryPredicate(R, h, graph, predicate) ==
    Yielded(TransientFirst(graph, Yielded(QueryPredicate(R, transient_graph, predicate)))
            \o <<Gen(Yielded(QueryPredicate(R, graph, predicate)))>>)

HDT_QueryPredicateObject(R, h, graph, predicate, object) ==
    IF h = <<>>
    THEN YieldedThenRaised(<<>>, "AttributeError")
    ELSE LET triples == search_triples(h, Wild, predicate, GetRaptorTerm(object))
         IN Yielded([i \in DOMAIN triples |-> URN(triples[i][1])]
                    \o QueryPredicateObject(R, graph, predicate, object))

HDT_QuerySubjectPredicate(R, h, graph, subject, predicate) ==
    LET base == QuerySubjectPredicate(R, graph, subject, predicate)
    IN IF h = <<>>
       THEN Yielded(base)
       ELSE LET triples == search_triples(h, SerializeToString(subject), predicate, Wild)
            IN Yielded(base \o [i \in DOMAIN triples |-> FromTerm(triples[i][3])])

HDT_Get(R, h, graph, subject, attribute) ==
    IF h = <<>>
    THEN GetSlot(R, graph, subject, attribute)
    ELSE LET res == SeqToSet(HDT_QuerySubjectPredicate(R, h, graph, subject,
                                                       attribute).yields)
         IN IF Cardinality(res) = 1
            THEN Scalar(CHOOSE x \in res : TRUE)
            ELSE List(SetToSeq(res))

HDT_SelectSubjectsByPrefix(R, h, graph, prefix) ==
    Yielded(TransientFirst(graph, Yielded(SelectSubjectsByPrefix(R, transient_graph, prefix)))
            \o <<Gen(Yielded(SelectSubjectsByPrefix(R, graph, prefix)))>>)

HDT_QueryPredicatesBySubject(R, h, graph, subject) ==
    Yielded(TransientFirst(graph,
                Yielded(QueryPredicatesBySubject(R, transient_graph, subject))))

\* Add and Set are inherited from MemoryDataStore.
HDT_AddOp(R, h, graph, subject, attribute, value) ==
    AddOp(R, graph, subject, attribute, value)

HDT_SetOp(R, h, graph, subject, attribute, value) ==
    SetOp(R, graph, subject, attribute, value)

\* invalidateCachedMetadata: the index file and its side index are unlinked.
invalidateCachedMetadata(file) == <<>>

\* DumpToTurtle of the indexed resolver: the append branch invalidates the
\* cached index first; self.hdt is not assigned.
HDT_DumpToTurtleOp(R, h, file, m) ==
    DumpToTurtleOp(R, m)
    @@ [hdt |-> h,
        cached_turtle |-> IF m.turtle # <<>>
                          THEN invalidateCachedMetadata(file)
                          ELSE file]

\* loadMetadata: the index file is built from information.turtle when it is
\* absent (converted: rdf2hdt wrote the file), then opened.
loadMetadata(h, file, m, converted) ==
    IF file # <<>>
    THEN [hdt |-> file, cached_turtle |-> file, ok |-> TRUE]
    ELSE IF m.turtle = <<>>
         THEN [hdt |-> h, cached_turtle |-> file, ok |-> FALSE]
         ELSE IF converted
              THEN [hdt |-> m.turtle, cached_turtle |-> m.turtle, ok |-> TRUE]
              ELSE [hdt |-> h, cached_turtle |-> file, ok |-> FALSE]

\* ------------------------------------------------------------------------
\* The indexed resolver as a state machine
\* ------------------------------------------------------------------------
HDTDumpToTurtle ==
    LET r == HDT_DumpToTurtleOp(Resolver, hdt, cached_turtle, members)
    IN /\ members' = r.members
       /\ hdt' = r.hdt
       /\ cached_turtle' = r.cached_turtle
       /\ UNCHANGED <<sweep, cacheVars, flush_callbacks, idle_order, store,
                      transient_store, outstanding>>

LoadMetadata(converted) ==
    LET r == loadMetadata(hdt, cached_turtle, members, converted)
    IN /\ hdt' = r.hdt
       /\ cached_turtle' = r.cached_turtle
       /\ UNCHANGED <<sweep, cacheVars, flush_callbacks, idle_order, store,
                      transient_store, members, outstanding>>

NextHDT ==
    \/ \E graph \in WriteGraphs : \E f \in TurtleFacts(graph) : Add(graph, f[1], f[2], f[3])
    \/ HDTDumpToTurtle
    \/ \E converted \in BOOLEAN : LoadMetadata(converted)

SpecHDT == InitResolver /\ [][NextHDT]_vars

\* ------------------------------------------------------------------------
\* Properties of HDTAssistedDataStore
\* ------------------------------------------------------------------------
\* The operations that the indexed resolver inherits or delegates while
\* self.hdt is None.
SameAsBaseDelegated ==
    \A graph \in Graphs, subject \in Keys, attribute \in Attributes :
        /\ HDT_Get(Resolver, <<>>, graph, subject, attribute)
              = GetSlot(Resolver, graph, subject, attribute)
        /\ HDT_QuerySubjectPredicate(Resolver, <<>>, graph, subject, attribute)
              = Yielded(QuerySubjectPredicate(Resolver, graph, subject, attribute))
        /\ \A value \in QueryObjects :
              /\ HDT_AddOp(Resolver, <<>>, graph, subject, attribute, value)
                    = AddOp(Resolver, graph, subject, attribute, value)
              /\ HDT_SetOp(Resolver, <<>>, graph, subject, attribute, value)
                    = SetOp(Resolver, graph, subject, attribute, value)

\* The queries that the indexed resolver overrides without a test of
\* self.hdt.
SameAsBaseOverridden ==
    \A graph \in Graphs :
        /\ \A prefix \in QueryPrefixes :
              /\ HDT_QuerySubject(Resolver, <<>>, graph, prefix)
                    = QuerySubject(Resolver, graph, prefix)
              /\ HDT_SelectSubjectsByPrefix(Resolver, <<>>, graph, prefix)
                    = Yielded(SelectSubjectsByPrefix(Resolver, graph, prefix))
        /\ \A predicate \in Attributes :
              /\ HDT_QueryPredicate(Resolver, <<>>, graph, predicate)
                    = Yielded(QueryPredicate(Resolver, graph, predicate))
              /\ \A object \in QueryObjects :
                    HDT_QueryPredicateObject(Resolver, <<>>, graph, predicate, object)
                       = Yielded(QueryPredicateObject(Resolver, graph, predicate, object))
        /\ \A subject \in Keys :
              HDT_QueryPredicatesBySubject(Resolver, <<>>, graph, subject)
                 = Yielded(QueryPredicatesBySubject(Resolver, graph, subject))

\* C22: while the index is absent (self.hdt is None), every operation of
\* HDTAssistedDataStore (Get, the six queries, Add, Set) returns what the
\* same operation of MemoryDataStore returns on the same stores and leaves
\* the same stores, for every graph selector.
C22_SameAsBaseWithoutIndex ==
    hdt = <<>> => SameAsBaseDelegated /\ SameAsBaseOverridden

\* C27: after an append of DumpToTurtle has completed, the indexed
\* resolver holds no index built before the append: the cached index file
\* is absent and the handle self.hdt is None, so that the next query is
\* answered from an index built after the append.
C27_NoStaleIndexAfterAppend ==
    LET r == HDT_DumpToTurtleOp(Resolver, hdt, cached_turtle, members)
    IN members.turtle # <<>> /\ r.ok
          => /\ r.cached_turtle = <<>>
             /\ r.hdt = <<>>

====
